---- MODULE Spec2Model ----
(***************************************************************************)
(* The peer-to-peer encrypted messaging subsystem (src/p2p_messaging.py)   *)
(* with the part of the DID registry client it consumes                   *)
(* (src/did_system.py: get_did_info).                                      *)
(*                                                                         *)
(* Values.  A Python str is a sequence of runs [cp, n]: n copies of the    *)
(* code point cp.  A bytes object produced by str.encode is a sequence of  *)
(* runs [unit, n]: n copies of the UTF-8 unit of one code point.  An       *)
(* optional value (X | None) is a sequence of length <= 1: None is << >>   *)
(* and a value x is << x >>.                                               *)
(***************************************************************************)
EXTENDS Integers, Sequences, FiniteSets, TLC

\* Number of connection slots (one client call or raw peer each).
MaxConns == 2

Conns == 1..MaxConns

None == << >>

Some(x) == << x >>

\* reader.read(4096)
ReadBufSize == 4096

\* eciespy envelope: 65-byte ephemeral public key, 16-byte nonce, 16-byte tag.
EciesOverhead == 97

Min(a, b) == IF a < b THEN a ELSE b

(***************************************************************************)
(* str.encode('utf-8') and bytes.decode('utf-8')                           *)
(***************************************************************************)
IsSurrogate(cp) == cp >= 55296 /\ cp <= 57343

\* The UTF-8 bytes of one code point (<< >> for a lone surrogate, which
\* Python refuses to encode).
Utf8Unit(cp) ==
    IF cp < 128 THEN << cp >>
    ELSE IF cp < 2048 THEN << 192 + (cp \div 64), 128 + (cp % 64) >>
    ELSE IF IsSurrogate(cp) THEN << >>
    ELSE << 224 + (cp \div 4096), 128 + ((cp \div 64) % 64), 128 + (cp % 64) >>

\* The code point a UTF-8 unit decodes to, -1 when the unit is invalid.
Utf8Point(u) ==
    IF Len(u) = 1 /\ u[1] < 128 THEN u[1]
    ELSE IF Len(u) = 2 /\ u[1] >= 194 /\ u[1] <= 223 /\ u[2] >= 128 /\ u[2] <= 191
         THEN (u[1] - 192) * 64 + (u[2] - 128)
    ELSE IF Len(u) = 3 /\ u[1] >= 224 /\ u[1] <= 239
            /\ u[2] >= 128 /\ u[2] <= 191 /\ u[3] >= 128 /\ u[3] <= 191
         THEN LET cp == (u[1] - 224) * 4096 + (u[2] - 128) * 64 + (u[3] - 128)
              IN IF cp >= 2048 /\ ~IsSurrogate(cp) THEN cp ELSE -1
    ELSE -1

\* message.encode('utf-8'): Some(bytes), or None when it raises.
str_encode(s) ==
    IF \E i \in 1..Len(s) : IsSurrogate(s[i].cp)
    THEN None
    ELSE Some([i \in 1..Len(s) |-> [unit |-> Utf8Unit(s[i].cp), n |-> s[i].n]])

\* Variant: decode('ascii').
bytes_decode_ascii(b) ==
    IF \E i \in 1..Len(b) : Len(b[i].unit) # 1 \/ Utf8Point(b[i].unit) = -1
    THEN None
    ELSE Some([i \in 1..Len(b) |-> [cp |-> Utf8Point(b[i].unit), n |-> b[i].n]])

\* decrypted_message_bytes.decode('utf-8'): Some(str), or None when it raises.
bytes_decode(b) ==
    IF \E i \in 1..Len(b) : Utf8Point(b[i].unit) = -1
    THEN None
    ELSE Some([i \in 1..Len(b) |-> [cp |-> Utf8Point(b[i].unit), n |-> b[i].n]])

RECURSIVE ByteLen(_)
ByteLen(b) ==
    IF b = << >> THEN 0
    ELSE Len(Head(b).unit) * Head(b).n + ByteLen(Tail(b))

(***************************************************************************)
(* Key material.  A private key is named by its scalar (1, 2); the curve   *)
(* point it generates carries the same name; 0 is not a point of the       *)
(* curve and -k is the point with k's x coordinate and the other y.        *)
(* A key string is [chars, hex, prefix, len, point]: the number of         *)
(* characters, whether they are hex digits, and the first byte, the byte   *)
(* length and the coordinates of what they spell.                          *)
(***************************************************************************)
TEST_PK_HEX_DID1 == 1

TEST_PK_HEX_DID2 == 2

PrivateKeys == {TEST_PK_HEX_DID1, TEST_PK_HEX_DID2}

KeyString(prefix, len, point) ==
    [chars |-> 2 + 2 * len, hex |-> TRUE, prefix |-> prefix, len |-> len, point |-> point]

EmptyString == [chars |-> 0, hex |-> TRUE, prefix |-> 0, len |-> 0, point |-> 0]

NotHexString == [chars |-> 132, hex |-> FALSE, prefix |-> 0, len |-> 0, point |-> 0]

\* "0x04" + pk_obj.public_key.to_bytes().hex()
get_hex_public_key_from_private(priv) == KeyString(4, 65, priv)

\* Parity of the y coordinate of a named point.
YParity(point) == point % 2

\* The 33-byte compressed encoding of a private key's point.
CompressedKey(priv) == KeyString(2 + YParity(priv), 33, priv)

\* HexBytes(s): Some(bytes) or None when it raises.
HexBytes(s) ==
    IF s.hex THEN Some([prefix |-> s.prefix, len |-> s.len, point |-> s.point]) ELSE None

\* Variant: the length of the key is not checked.
PublicKeyParseAnyLength(k) ==
    IF k.point = 0 THEN 0
    ELSE IF k.prefix = 4 THEN k.point
    ELSE IF k.prefix \in {2, 3}
         THEN (IF k.prefix = 2 + YParity(k.point) THEN k.point ELSE 0 - k.point)
    ELSE 0

\* coincurve PublicKey(data), used by ecies.encrypt on a bytes key: the
\* point, or 0 when the parse raises.
PublicKeyParse(k) ==
    IF k.point = 0 THEN 0
    ELSE IF k.len = 65 /\ k.prefix = 4 THEN k.point
    ELSE IF k.len = 65 /\ k.prefix \in {6, 7}
         THEN (IF k.prefix = 6 + YParity(k.point) THEN k.point ELSE 0)
    ELSE IF k.len = 33 /\ k.prefix \in {2, 3}
         THEN (IF k.prefix = 2 + YParity(k.point) THEN k.point ELSE 0 - k.point)
    ELSE 0

(***************************************************************************)
(* ecies.encrypt / ecies.decrypt.  An envelope is [to, body, len]; a       *)
(* bytes object on the wire is [src, n]: the first n bytes of src.         *)
(***************************************************************************)
Envelope(point, body) ==
    [garbage |-> FALSE, to |-> point, body |-> body, len |-> EciesOverhead + ByteLen(body)]

\* Bytes that no key decrypts (a peer that does not speak the protocol).
Garbage(len) == [garbage |-> TRUE, to |-> 0, body |-> << >>, len |-> len]

Whole(src) == [src |-> src, n |-> src.len]

\* data[:k]
Take(data, k) == [src |-> data.src, n |-> Min(data.n, k)]

\* encrypt(public_key_bytes, message_bytes): Some(envelope) or None (raises).
ecies_encrypt(key, body) ==
    IF PublicKeyParse(key) = 0 THEN None
    ELSE Some(Whole(Envelope(PublicKeyParse(key), body)))

\* Variant: the recipient of the envelope is not checked.
ecies_decrypt_any_key(priv, data) ==
    IF ~data.src.garbage /\ data.n = data.src.len
    THEN Some(data.src.body)
    ELSE None

\* decrypt(private_key_bytes, payload): Some(body) or None (raises): the
\* authentication tag verifies only on the whole envelope under the key
\* whose point it was made for.
ecies_decrypt(priv, data) ==
    IF ~data.src.garbage /\ data.n = data.src.len /\ data.src.to = priv
    THEN Some(data.src.body)
    ELSE None

\* encrypt_message(recipient_hex_public_key, message) -> bytes | None
encrypt_message(recipient_hex_public_key, message) ==
    LET public_key_bytes == HexBytes(recipient_hex_public_key)
        message_bytes == str_encode(message)
    IN IF public_key_bytes = None \/ message_bytes = None THEN None
       ELSE ecies_encrypt(public_key_bytes[1], message_bytes[1])

\* decrypt_message(recipient_hex_private_key, encrypted_payload) -> str | None
\* (encrypted_payload is itself optional: None is what a failed
\* encrypt_message hands on.)
decrypt_message(recipient_hex_private_key, encrypted_payload) ==
    IF encrypted_payload = None THEN None
    ELSE LET decrypted_message_bytes ==
                 ecies_decrypt(recipient_hex_private_key, encrypted_payload[1])
         IN IF decrypted_message_bytes = None THEN None
            ELSE bytes_decode(decrypted_message_bytes[1])

(***************************************************************************)
(* Inputs                                                                  *)
(***************************************************************************)
Str(cp, n) == << [cp |-> cp, n |-> n] >>

\* "h" followed by 1999 x "é": 3999 bytes, an envelope of exactly 4096.
LongestFitting == Str(104, 1) \o Str(233, 1999)

\* The transport's write buffer limit above which drain() suspends
\* (asyncio's default high-water mark, 64 KiB).
HighWaterMark == 65536

\* "", "hé", the longest message that fits one read, 40000 x "é" (80000
\* bytes: an envelope larger than one read and than the write buffer
\* limit), a lone surrogate.
Plaintexts ==
    { << >>, Str(104, 1) \o Str(233, 1), LongestFitting, Str(233, 40000),
      Str(55296, 1) }

\* Key strings a caller or the registry may hold.
KeyStrings ==
    { get_hex_public_key_from_private(TEST_PK_HEX_DID1),
      get_hex_public_key_from_private(TEST_PK_HEX_DID2),
      CompressedKey(TEST_PK_HEX_DID1),
      CompressedKey(TEST_PK_HEX_DID2),
      KeyString(4, 10, TEST_PK_HEX_DID1),
      KeyString(4, 64, TEST_PK_HEX_DID1),
      KeyString(5, 65, TEST_PK_HEX_DID1),
      KeyString(2, 65, TEST_PK_HEX_DID2),
      KeyString(4, 65, 0),
      NotHexString,
      EmptyString }

(***************************************************************************)
(* State                                                                   *)
(***************************************************************************)
VARIABLES
    registry,            \* DIDRegistry contract storage: did hash -> entry
    server,              \* start_server: "Idle", "Listening", "Cancelled",
                         \*   "Closed" ("fully closed" printed), "BindFailed"
    useTestHandler,      \* start_server(use_test_handler=...)
    waitClosedWaits,     \* after server.close(): Server.wait_closed waits for
                         \*   the open connections (Python >= 3.12) or returns
                         \*   at once (<= 3.11)
    client,              \* per slot: the send_message_p2p call or raw peer
    link,                \* per slot: the TCP connection
    handler,             \* per slot: the server's connection handler task
    test_message_queue,  \* asyncio.Queue of str | None
    cipher,              \* a direct caller of encrypt_message/decrypt_message
    projects_file,       \* projects.json: None (missing or not JSON) or
                         \*   Some(list of project records)
    contributions_file,  \* contributions.json, likewise
    ret                  \* the last project/contribution call and what it
                         \*   returned

vars == << registry, server, useTestHandler, waitClosedWaits, client, link,
           handler, test_message_queue, cipher, projects_file,
           contributions_file, ret >>

\* Web3.keccak(text=unique_input)
generate_did_identifier(unique_input) == << "keccak", unique_input >>

DIDStrings == {"did1", "did2", "short", "nokey", "unknown-peer"}

Unregistered == [registered |-> FALSE, owner |-> 0, publicKey |-> EmptyString,
                 documentCID |-> ""]

Entry(owner, publicKey) ==
    [registered |-> TRUE, owner |-> owner, publicKey |-> publicKey,
     documentCID |-> "QmP2PServerCID"]

\* The registry main_test sets up for DID1, and other entries a caller may
\* meet: another peer's key, a 10-byte key, an empty key, no entry.
InitialRegistry ==
    [d \in {generate_did_identifier(s) : s \in DIDStrings} |->
        CASE d = generate_did_identifier("did1") ->
                 Entry(TEST_PK_HEX_DID1, get_hex_public_key_from_private(TEST_PK_HEX_DID1))
          [] d = generate_did_identifier("did2") ->
                 Entry(TEST_PK_HEX_DID2, get_hex_public_key_from_private(TEST_PK_HEX_DID2))
          [] d = generate_did_identifier("short") ->
                 Entry(TEST_PK_HEX_DID1, KeyString(4, 10, TEST_PK_HEX_DID1))
          [] d = generate_did_identifier("nokey") ->
                 Entry(TEST_PK_HEX_DID1, EmptyString)
          [] OTHER -> Unregistered]

\* DIDRegistry.isDIDRegistered(did)
isDIDRegistered(reg, did) == reg[did].registered

\* DIDRegistry.getDIDInfo(did)
getDIDInfo(reg, did) ==
    [owner |-> reg[did].owner, publicKey |-> reg[did].publicKey,
     documentCID |-> reg[did].documentCID]

\* Variant: the entries read at start-up are kept and answered from.
get_did_info_cached(reg, did_bytes32, rpcOk) ==
    IF ~rpcOk THEN None
    ELSE IF ~isDIDRegistered(InitialRegistry, did_bytes32) THEN None
    ELSE Some(getDIDInfo(InitialRegistry, did_bytes32))

\* get_did_info(did_bytes32) -> dict | None; rpcOk: the contract calls
\* return (otherwise they raise and the except branch returns None).
get_did_info(reg, did_bytes32, rpcOk) ==
    IF ~rpcOk THEN None
    ELSE IF ~isDIDRegistered(reg, did_bytes32) THEN None
    ELSE Some(getDIDInfo(reg, did_bytes32))

\* The private key the server under test is started with (main_test).
ServerPrivateKey == TEST_PK_HEX_DID1

\* Python truthiness of a str | None / bytes | None value.
Truthy(opt) == opt # None /\ opt[1] # << >>

IdleClient == [kind |-> "none", pc |-> "idle", did |-> "", msg |-> << >>,
               did_info |-> None, payload |-> None, result |-> "none", stages |-> << >>,
               closed |-> FALSE]

NoLink == [state |-> "none", wire |-> None, arrived |-> 0, fin |-> FALSE,
           rst |-> FALSE]

NoHandler == [pc |-> "none", data |-> None, puts |-> << >>,
              acceptedWhen |-> "none", handledBefore |-> {}, closed |-> FALSE,
              raised |-> FALSE, written |-> 0]

CipherOff == [pc |-> "off", key |-> EmptyString, priv |-> 0, msg |-> << >>,
              env |-> None, out |-> None]

\* No project or contribution call has been made yet.
NoCall == [op |-> "none"]

Init ==
    /\ registry = InitialRegistry
    /\ server = "Idle"
    /\ useTestHandler = FALSE
    /\ waitClosedWaits = FALSE
    /\ client = [c \in Conns |-> IdleClient]
    /\ link = [c \in Conns |-> NoLink]
    /\ handler = [c \in Conns |-> NoHandler]
    /\ test_message_queue = << >>
    /\ cipher = CipherOff
    /\ projects_file = None
    /\ contributions_file = None
    /\ ret = NoCall

(***************************************************************************)
(* The server: start_server and its connection handlers                    *)
(***************************************************************************)
\* server_task = asyncio.create_task(start_server(...)): the caller has the
\* task, its handle on the server, before the coroutine has run a line.
create_task ==
    /\ server = "Idle"
    /\ server' = "Starting"
    /\ UNCHANGED << registry, useTestHandler, waitClosedWaits, client, link,
                    handler, test_message_queue, cipher,
                    projects_file, contributions_file, ret >>

\* server_task.cancel() before the task has run: start_server never runs.
CancelUnstarted ==
    /\ server = "Starting"
    /\ server' = "Abandoned"
    /\ UNCHANGED << registry, useTestHandler, waitClosedWaits, client, link,
                    handler, test_message_queue, cipher,
                    projects_file, contributions_file, ret >>

\* The task's first run, up to server = await asyncio.start_server(...):
\* binds and listens, or raises OSError, which ends the task.
start_server(bindOk, use_test_handler) ==
    /\ server = "Starting"
    /\ server' = IF bindOk THEN "Listening" ELSE "BindFailed"
    /\ useTestHandler' = use_test_handler
    /\ UNCHANGED << registry, waitClosedWaits, client, link, handler,
                    test_message_queue, cipher,
                    projects_file, contributions_file, ret >>

\* Connections asyncio's Server counts as open: accepted, transport not closed.
ActiveConns == {c \in Conns : link[c].state = "accepted" /\ ~handler[c].closed}

\* Variant: cancellation leaves the listening socket open until the
\* server is fully closed.
ListenerOpenUntilClosed == server \in {"Listening", "Cancelled"}

\* The listening socket takes connections while the server is serving.
ListenerOpen == server = "Listening"

\* server_task.cancel() reaching serve_forever: Server.close() closes the
\* listening socket; connections still in its backlog are reset.  What
\* wait_closed does from here on depends on the interpreter (waits).
CancelServer(waits) ==
    /\ server = "Listening"
    /\ server' = "Cancelled"
    /\ waitClosedWaits' = waits
    /\ link' = [c \in Conns |->
                  IF link[c].state = "backlog"
                  THEN [link[c] EXCEPT !.state = "dropped"] ELSE link[c]]
    /\ UNCHANGED << registry, useTestHandler, client, handler,
                    test_message_queue, cipher,
                    projects_file, contributions_file, ret >>

\* await server.wait_closed() returns.
WaitClosedReturns == waitClosedWaits => ActiveConns = {}

\* finally: server.close(); await server.wait_closed(); "fully closed".
ServerFullyClosed ==
    /\ server = "Cancelled"
    /\ WaitClosedReturns
    /\ server' = "Closed"
    /\ UNCHANGED << registry, useTestHandler, waitClosedWaits, client, link,
                    handler, test_message_queue, cipher,
                    projects_file, contributions_file, ret >>

\* Variant: the accept loop awaits the handler it started before it takes
\* the next connection.
AcceptEnabledSerial(c) ==
    /\ server = "Listening" /\ link[c].state = "backlog"
    /\ \A d \in Conns : handler[d].pc # "read"

\* The event loop accepts a connection and starts client_connected_cb.
AcceptEnabled(c) == ListenerOpen /\ link[c].state = "backlog"

client_connected_cb(c) ==
    /\ AcceptEnabled(c)
    /\ link' = [link EXCEPT ![c].state = "accepted"]
    /\ handler' = [handler EXCEPT
                     ![c].pc = "read",
                     ![c].acceptedWhen = server,
                     ![c].handledBefore = {d \in Conns : handler[d].pc = "done"}]
    /\ UNCHANGED << registry, server, useTestHandler, waitClosedWaits, client,
                    test_message_queue, cipher,
                    projects_file, contributions_file, ret >>

\* The network hands the next bytes of the stream to the server's side of
\* the connection, while that side is open: everything written, or a first
\* segment of it.
SegmentCuts(n) == {n \div 2, n}

NetworkDeliver(c) ==
    /\ link[c].state \in {"backlog", "accepted"}
    /\ ~handler[c].closed
    /\ ~link[c].rst
    /\ link[c].wire # None
    /\ \E k \in SegmentCuts(link[c].wire[1].n) :
          /\ k > link[c].arrived
          /\ link' = [link EXCEPT ![c].arrived = k]
    /\ UNCHANGED << registry, server, useTestHandler, waitClosedWaits, client,
                    handler, test_message_queue, cipher,
                    projects_file, contributions_file, ret >>

\* Variant: one buffer shared by all connections (the first with data).
ReaderBufferShared(c) ==
    LET withData == {d \in Conns : link[d].arrived > 0}
    IN IF withData = {} THEN None
       ELSE LET d == CHOOSE x \in withData : \A y \in withData : x <= y
            IN Some(Take(link[d].wire[1], link[d].arrived))

\* The bytes in connection c's own StreamReader buffer.
ReaderBuffer(c) ==
    IF link[c].arrived = 0 THEN None
    ELSE Some(Take(link[c].wire[1], link[c].arrived))

\* await reader.read(4096) can return: data is buffered, or EOF was fed, or
\* the peer reset the connection (the read raises ConnectionResetError).
ReadReady(c) ==
    \/ link[c].arrived > 0
    \/ link[c].fin /\ link[c].wire = None
    \/ link[c].rst

\* Variant: the read returns everything that is buffered.
reader_read_all(c, n) == ReaderBuffer(c)

\* encrypted_data = await reader.read(4096): None stands for b''.
reader_read(c, n) ==
    IF ReaderBuffer(c) = None THEN None ELSE Some(Take(ReaderBuffer(c)[1], n))

\* Variant: the handler decrypts with a module-level key instead of the
\* key its server was started with.
TestHandlerPutsGlobalKey(encrypted_data) ==
    IF encrypted_data = None THEN << >>
    ELSE LET decrypted_message == decrypt_message(TEST_PK_HEX_DID2, encrypted_data)
         IN IF Truthy(decrypted_message) THEN << decrypted_message >>
            ELSE << None >>

\* Variant: the handler tests the decrypted message against None, so that
\* an empty string is put as it is.
TestHandlerPutsAnyString(encrypted_data) ==
    IF encrypted_data = None THEN << >>
    ELSE LET decrypted_message == decrypt_message(ServerPrivateKey, encrypted_data)
         IN IF decrypted_message # None THEN << decrypted_message >>
            ELSE << None >>

\* Variant: a failed decryption is only logged, nothing is put.
TestHandlerPutsOnSuccessOnly(encrypted_data) ==
    IF encrypted_data = None THEN << >>
    ELSE LET decrypted_message == decrypt_message(ServerPrivateKey, encrypted_data)
         IN IF Truthy(decrypted_message) THEN << decrypted_message >>
            ELSE << >>

\* What handle_connection_for_test puts on test_message_queue for the
\* bytes it read: nothing on an empty read, else the decrypted message
\* when it is truthy, else None.
TestHandlerPuts(encrypted_data) ==
    IF encrypted_data = None THEN << >>
    ELSE LET decrypted_message == decrypt_message(ServerPrivateKey, encrypted_data)
         IN IF Truthy(decrypted_message) THEN << decrypted_message >>
            ELSE << None >>

\* default_handle_connection only prints.
DefaultHandlerPuts(encrypted_data) == << >>

HandlerPuts(encrypted_data) ==
    IF useTestHandler THEN TestHandlerPuts(encrypted_data)
    ELSE DefaultHandlerPuts(encrypted_data)

\* except Exception: the test handler puts None, the default one prints.
HandlerRaisedPuts == IF useTestHandler THEN << None >> ELSE << >>

\* Variant: the writer is closed at the end of the try block, so that a
\* handler that raised leaves it open.
HandlerClosesInTry(raised) == ~raised

\* finally: writer.close() and wait_closed(), on every path of a handler.
HandlerCloses(raised) == TRUE

\* Variant: a handler that answers a failed decryption with a 4-byte NACK.
HandlerWritesNack(encrypted_data, items) ==
    IF items = << None >> THEN 4 ELSE 0

\* The bytes a handler writes to its writer: neither handler calls
\* writer.write.
HandlerWrites(encrypted_data, items) == 0

\* handle_connection_for_test / default_handle_connection from the return
\* of reader.read (or the exception it raises on a reset connection) to
\* writer.close(): no suspension point in between.
handle_connection(c) ==
    /\ handler[c].pc = "read"
    /\ ReadReady(c)
    /\ \E encrypted_data \in { IF link[c].rst THEN None
                               ELSE reader_read(c, ReadBufSize) } :
       \E items \in { IF link[c].rst THEN HandlerRaisedPuts
                      ELSE HandlerPuts(encrypted_data) } :
          /\ handler' = [handler EXCEPT ![c].pc = "done",
                                        ![c].data = encrypted_data,
                                        ![c].puts = items,
                                        ![c].raised = link[c].rst,
                                        ![c].written =
                                            HandlerWrites(encrypted_data, items),
                                        ![c].closed = HandlerCloses(link[c].rst)]
          /\ test_message_queue' = test_message_queue \o items
    /\ UNCHANGED << registry, server, useTestHandler, waitClosedWaits, client,
                    link, cipher,
                    projects_file, contributions_file, ret >>

(***************************************************************************)
(* The client: send_message_p2p                                            *)
(***************************************************************************)
\* Variant: a missing registry entry falls back to the caller's own key.
SendPrepareWithFallbackKey(reg, did, message, rpcOk) ==
    LET did_info == get_did_info(reg, generate_did_identifier(did), rpcOk)
        key == IF did_info = None \/ did_info[1].publicKey.chars = 0
               THEN get_hex_public_key_from_private(TEST_PK_HEX_DID2)
               ELSE did_info[1].publicKey
        encrypted_payload == encrypt_message(key, message)
    IN IF ~Truthy(encrypted_payload) THEN None ELSE encrypted_payload

\* Steps 1 and 2 (resolve, encrypt), which run without suspending: the
\* payload to send, or None when the call returns False.
SendPrepare(reg, did, message, rpcOk) ==
    LET did_info == get_did_info(reg, generate_did_identifier(did), rpcOk)
    IN IF did_info = None \/ did_info[1].publicKey.chars = 0 THEN None
       ELSE LET encrypted_payload == encrypt_message(did_info[1].publicKey, message)
            IN IF ~Truthy(encrypted_payload) THEN None ELSE encrypted_payload

\* The stages a call went through before its first suspension point.
SendPrepareStages(reg, did, rpcOk) ==
    LET did_info == get_did_info(reg, generate_did_identifier(did), rpcOk)
    IN IF did_info = None \/ did_info[1].publicKey.chars = 0 THEN << "resolve" >>
       ELSE << "resolve", "encrypt" >>

\* Slots are numbered in the order in which the calls are made.
SlotFree(c) ==
    /\ client[c].pc = "idle"
    /\ \A d \in Conns : d < c => client[d].pc # "idle"

\* Variant: the connection is opened once the DID is resolved, before the
\* result of the encryption is looked at.
send_message_p2p_connect_first(c, did, message, rpcOk) ==
    /\ SlotFree(c)
    /\ LET encrypted_payload == SendPrepare(registry, did, message, rpcOk)
           stages == SendPrepareStages(registry, did, rpcOk)
           resolved == Len(stages) = 2
       IN client' = [client EXCEPT ![c] =
              [kind |-> "send", did |-> did, msg |-> message,
               did_info |-> get_did_info(registry, generate_did_identifier(did), rpcOk),
               payload |-> encrypted_payload,
               pc |-> IF resolved THEN "connecting" ELSE "done",
               result |-> IF resolved THEN "none" ELSE "False",
               stages |-> stages, closed |-> FALSE]]
    /\ UNCHANGED << registry, server, useTestHandler, waitClosedWaits, link,
                    handler, test_message_queue, cipher,
                    projects_file, contributions_file, ret >>

send_message_p2p(c, did, message, rpcOk) ==
    /\ SlotFree(c)
    /\ LET encrypted_payload == SendPrepare(registry, did, message, rpcOk)
           stages == SendPrepareStages(registry, did, rpcOk)
       IN client' = [client EXCEPT ![c] =
              [kind |-> "send", did |-> did, msg |-> message,
               did_info |-> get_did_info(registry, generate_did_identifier(did), rpcOk),
               payload |-> encrypted_payload,
               pc |-> IF encrypted_payload = None THEN "done" ELSE "connecting",
               result |-> IF encrypted_payload = None THEN "False" ELSE "none",
               stages |-> stages, closed |-> FALSE]]
    /\ UNCHANGED << registry, server, useTestHandler, waitClosedWaits, link,
                    handler, test_message_queue, cipher,
                    projects_file, contributions_file, ret >>

\* Variant: no except clause around the connection attempt, the refusal
\* propagates to the caller.
open_connection_uncaught(c) ==
    /\ client[c].kind = "send"
    /\ client[c].pc = "connecting"
    /\ IF server = "Listening"
       THEN /\ client' = [client EXCEPT ![c].pc = "connected",
                              ![c].stages = Append(client[c].stages, "connect")]
            /\ link' = [link EXCEPT ![c].state = "backlog"]
       ELSE /\ client' = [client EXCEPT ![c].pc = "done", ![c].result = "raised",
                              ![c].stages = Append(client[c].stages, "connect")]
            /\ UNCHANGED link
    /\ UNCHANGED << registry, server, useTestHandler, waitClosedWaits, handler,
                    test_message_queue, cipher,
                    projects_file, contributions_file, ret >>

\* Variant: a refused connection is attempted once more.
open_connection_retry(c) ==
    /\ client[c].kind = "send"
    /\ client[c].pc = "connecting"
    /\ IF server = "Listening"
       THEN /\ client' = [client EXCEPT ![c].pc = "connected",
                              ![c].stages = Append(client[c].stages, "connect")]
            /\ link' = [link EXCEPT ![c].state = "backlog"]
       ELSE /\ client' = [client EXCEPT
                              ![c].pc = IF client[c].stages[Len(client[c].stages)] = "connect"
                                        THEN "done" ELSE "connecting",
                              ![c].result = IF client[c].stages[Len(client[c].stages)] = "connect"
                                            THEN "False" ELSE "none",
                              ![c].stages = Append(client[c].stages, "connect")]
            /\ UNCHANGED link
    /\ UNCHANGED << registry, server, useTestHandler, waitClosedWaits, handler,
                    test_message_queue, cipher,
                    projects_file, contributions_file, ret >>

\* reader, writer = await asyncio.open_connection(...): established when
\* the listening socket is open, ConnectionRefusedError otherwise.
open_connection(c) ==
    /\ client[c].kind = "send"
    /\ client[c].pc = "connecting"
    /\ IF ListenerOpen
       THEN /\ client' = [client EXCEPT ![c].pc = "connected",
                              ![c].stages = Append(client[c].stages, "connect")]
            /\ link' = [link EXCEPT ![c].state = "backlog"]
       ELSE /\ client' = [client EXCEPT ![c].pc = "done", ![c].result = "False",
                              ![c].stages = Append(client[c].stages, "connect")]
            /\ UNCHANGED link
    /\ UNCHANGED << registry, server, useTestHandler, waitClosedWaits, handler,
                    test_message_queue, cipher,
                    projects_file, contributions_file, ret >>

\* writer.write(encrypted_payload); await writer.drain(): raises on a
\* connection the server has reset when the reset is seen in time.
write_drain(c, resetSeen) ==
    /\ client[c].kind = "send"
    /\ client[c].pc = "connected"
    /\ IF link[c].state = "dropped" /\ resetSeen
       THEN /\ client' = [client EXCEPT ![c].pc = "done", ![c].result = "False",
                              ![c].stages = Append(client[c].stages, "write")]
            /\ UNCHANGED link
       ELSE /\ client' = [client EXCEPT ![c].pc = "written",
                              ![c].stages = Append(client[c].stages, "write")]
            /\ link' = [link EXCEPT ![c].wire = client[c].payload]
    /\ UNCHANGED << registry, server, useTestHandler, waitClosedWaits, handler,
                    test_message_queue, cipher,
                    projects_file, contributions_file, ret >>

\* await writer.drain() suspends while the transport holds more unsent
\* bytes than its limit: the server has not read them yet.
DrainSuspended(c) ==
    /\ client[c].kind = "send"
    /\ client[c].pc = "written"
    /\ client[c].payload[1].n > HighWaterMark
    /\ link[c].arrived < client[c].payload[1].n

\* The task running send_message_p2p is cancelled while it waits in
\* drain(): CancelledError is no Exception, no except clause of lines
\* 218-223 catches it and there is no finally, so writer.close() never
\* runs.  Whether the stream's finalizer then closes the transport depends
\* on the interpreter (finalized).
CancelSend(c, finalized) ==
    /\ DrainSuspended(c)
    /\ client' = [client EXCEPT ![c].pc = "done", ![c].result = "cancelled",
                                ![c].closed = finalized]
    /\ link' = [link EXCEPT ![c].fin = finalized]
    /\ UNCHANGED << registry, server, useTestHandler, waitClosedWaits, handler,
                    test_message_queue, cipher,
                    projects_file, contributions_file, ret >>

\* await writer.drain() raises (ConnectionResetError, BrokenPipeError) when
\* the server closed the connection with bytes still unsent: caught by
\* except Exception, return False.
drain_raises(c) ==
    /\ DrainSuspended(c)
    /\ handler[c].closed
    /\ client' = [client EXCEPT ![c].pc = "done", ![c].result = "False",
                                ![c].closed = TRUE]
    /\ link' = [link EXCEPT ![c].fin = TRUE]
    /\ UNCHANGED << registry, server, useTestHandler, waitClosedWaits, handler,
                    test_message_queue, cipher,
                    projects_file, contributions_file, ret >>

\* writer.close(); await writer.wait_closed(); return True
close_return(c) ==
    /\ client[c].kind = "send"
    /\ client[c].pc = "written"
    /\ client' = [client EXCEPT ![c].pc = "done", ![c].result = "True",
                                ![c].closed = TRUE,
                                ![c].stages = Append(client[c].stages, "close")]
    /\ link' = [link EXCEPT ![c].fin = TRUE]
    /\ UNCHANGED << registry, server, useTestHandler, waitClosedWaits, handler,
                    test_message_queue, cipher,
                    projects_file, contributions_file, ret >>

(***************************************************************************)
(* A peer that does not run send_message_p2p: it connects, may write bytes *)
(* that are no envelope, and closes.                                       *)
(***************************************************************************)
RawConnect(c) ==
    /\ SlotFree(c)
    /\ ListenerOpen
    /\ client' = [client EXCEPT ![c].kind = "raw", ![c].pc = "connected"]
    /\ link' = [link EXCEPT ![c].state = "backlog"]
    /\ UNCHANGED << registry, server, useTestHandler, waitClosedWaits, handler,
                    test_message_queue, cipher,
                    projects_file, contributions_file, ret >>

RawWrite(c) ==
    /\ client[c].kind = "raw"
    /\ client[c].pc = "connected"
    /\ client' = [client EXCEPT ![c].pc = "written"]
    /\ link' = [link EXCEPT ![c].wire = Some(Whole(Garbage(ReadBufSize)))]
    /\ UNCHANGED << registry, server, useTestHandler, waitClosedWaits, handler,
                    test_message_queue, cipher,
                    projects_file, contributions_file, ret >>

RawClose(c) ==
    /\ client[c].kind = "raw"
    /\ client[c].pc \in {"connected", "written"}
    /\ client' = [client EXCEPT ![c].pc = "done", ![c].closed = TRUE]
    /\ link' = [link EXCEPT ![c].fin = TRUE]
    /\ UNCHANGED << registry, server, useTestHandler, waitClosedWaits, handler,
                    test_message_queue, cipher,
                    projects_file, contributions_file, ret >>

Next ==
    \/ create_task
    \/ CancelUnstarted
    \/ \E bindOk \in BOOLEAN, use_test_handler \in BOOLEAN :
          start_server(bindOk, use_test_handler)
    \/ \E waits \in BOOLEAN : CancelServer(waits)
    \/ ServerFullyClosed
    \/ \E c \in Conns : client_connected_cb(c)
    \/ \E c \in Conns : NetworkDeliver(c)
    \/ \E c \in Conns : handle_connection(c)
    \/ \E c \in Conns, did \in DIDStrings, message \in Plaintexts, rpcOk \in BOOLEAN :
          send_message_p2p(c, did, message, rpcOk)
    \/ \E c \in Conns : open_connection(c)
    \/ \E c \in Conns, resetSeen \in BOOLEAN : write_drain(c, resetSeen)
    \/ \E c \in Conns : close_return(c)
    \/ \E c \in Conns : drain_raises(c)
    \/ \E c \in Conns, finalized \in BOOLEAN : CancelSend(c, finalized)
    \/ \E c \in Conns : RawConnect(c)
    \/ \E c \in Conns : RawWrite(c)
    \/ \E c \in Conns : RawClose(c)

Spec == Init /\ [][Next]_vars

(***************************************************************************)
(* The registry changes under the senders: the owner of a DID publishes    *)
(* another public key.                                                     *)
(***************************************************************************)
\* DIDRegistry.updatePublicKey(did, newPublicKey), by the owner only.
updatePublicKey(reg, did, new_public_key) ==
    [reg EXCEPT ![did].publicKey = new_public_key]

\* did_system.update_public_key: returns False without a transaction when
\* the DID is not registered or the caller is not its owner.
update_public_key(did_bytes32, new_public_key, owner_eth_address) ==
    /\ isDIDRegistered(registry, did_bytes32)
    /\ registry[did_bytes32].owner = owner_eth_address
    /\ registry[did_bytes32].publicKey # new_public_key
    /\ registry' = updatePublicKey(registry, did_bytes32, new_public_key)
    /\ UNCHANGED << server, useTestHandler, waitClosedWaits, client, link,
                    handler, test_message_queue, cipher,
                    projects_file, contributions_file, ret >>

\* The keys the owner of "did1" rotates between.
RotatedKeys == { get_hex_public_key_from_private(k) : k \in PrivateKeys }

\* The test-handler server of main_test, senders to the two DIDs main_test
\* registers, and the owner of "did1" changing its published key.
RegistryNext ==
    \/ create_task
    \/ CancelUnstarted
    \/ \E bindOk \in BOOLEAN : start_server(bindOk, TRUE)
    \/ \E waits \in BOOLEAN : CancelServer(waits)
    \/ ServerFullyClosed
    \/ \E c \in Conns : client_connected_cb(c)
    \/ \E c \in Conns : NetworkDeliver(c)
    \/ \E c \in Conns : handle_connection(c)
    \/ \E c \in Conns, did \in {"did1", "did2"}, message \in Plaintexts, rpcOk \in BOOLEAN :
          send_message_p2p(c, did, message, rpcOk)
    \/ \E c \in Conns : open_connection(c)
    \/ \E c \in Conns, resetSeen \in BOOLEAN : write_drain(c, resetSeen)
    \/ \E c \in Conns : close_return(c)
    \/ \E new_public_key \in RotatedKeys, owner_eth_address \in PrivateKeys :
          update_public_key(generate_did_identifier("did1"), new_public_key,
                            owner_eth_address)

RegistrySpec == Init /\ [][RegistryNext]_vars

(***************************************************************************)
(* A direct caller of the cipher functions: encrypt_message on a key       *)
(* string and a message, then decrypt_message on what it returned.         *)
(***************************************************************************)
CipherInit ==
    /\ registry = InitialRegistry
    /\ server = "Idle"
    /\ useTestHandler = FALSE
    /\ waitClosedWaits = FALSE
    /\ client = [c \in Conns |-> IdleClient]
    /\ link = [c \in Conns |-> NoLink]
    /\ handler = [c \in Conns |-> NoHandler]
    /\ test_message_queue = << >>
    /\ cipher \in [pc : {"start"}, key : KeyStrings, priv : PrivateKeys,
                   msg : Plaintexts, env : {None}, out : {None}]
    /\ projects_file = None
    /\ contributions_file = None
    /\ ret = NoCall

CipherEncrypt ==
    /\ cipher.pc = "start"
    /\ cipher' = [cipher EXCEPT !.pc = "encrypted",
                                !.env = encrypt_message(cipher.key, cipher.msg)]
    /\ UNCHANGED << registry, server, useTestHandler, waitClosedWaits, client,
                    link, handler, test_message_queue,
                    projects_file, contributions_file, ret >>

CipherDecrypt ==
    /\ cipher.pc = "encrypted"
    /\ cipher' = [cipher EXCEPT !.pc = "decrypted",
                                !.out = decrypt_message(cipher.priv, cipher.env)]
    /\ UNCHANGED << registry, server, useTestHandler, waitClosedWaits, client,
                    link, handler, test_message_queue,
                    projects_file, contributions_file, ret >>

CipherNext == CipherEncrypt \/ CipherDecrypt

CipherSpec == CipherInit /\ [][CipherNext]_vars

(***************************************************************************)
(* Properties                                                              *)
(***************************************************************************)
\* The encodings of the public key of a private key.
PublicKeysOf(priv) == {get_hex_public_key_from_private(priv), CompressedKey(priv)}

\* A str that UTF-8 can encode: no lone surrogate code point.
Encodable(s) == \A i \in 1..Len(s) : ~IsSurrogate(s[i].cp)

\* C2 as stated: for every valid keypair and every plaintext p,
\* decrypt_message(priv, encrypt_message(pub, p)) returns p and neither
\* call returns None.
C2_RoundTripAnyPlaintext ==
    (cipher.pc = "decrypted" /\ cipher.key \in PublicKeysOf(cipher.priv))
        => (cipher.env # None /\ cipher.out = Some(cipher.msg))

\* C2 amended: for every valid keypair and every plaintext p that UTF-8 can
\* encode, decrypt_message(priv, encrypt_message(pub, p)) returns p and
\* neither call returns None.
C2_RoundTrip ==
    (cipher.pc = "decrypted" /\ cipher.key \in PublicKeysOf(cipher.priv)
        /\ Encodable(cipher.msg))
        => (cipher.env # None /\ cipher.out = Some(cipher.msg))

C2_Witness ==
    /\ cipher.pc = "decrypted"
    /\ cipher.key = get_hex_public_key_from_private(cipher.priv)
    /\ cipher.msg = LongestFitting
    /\ cipher.out = Some(cipher.msg)

\* C4 as stated: encrypt_message with a public key of the wrong length or
\* whose first byte is not 0x04 returns None and never an envelope.
C4_MalformedKeyRejected ==
    (cipher.pc # "start" /\ (cipher.key.len # 65 \/ cipher.key.prefix # 4))
        => cipher.env = None

\* A key string that spells a curve point in one of the encodings of the
\* curve: 65 bytes after 0x04 (or the hybrid 0x06/0x07), 33 bytes after
\* 0x02/0x03.
WellFormedKey(k) ==
    /\ k.hex
    /\ k.point # 0
    /\ \/ k.len = 65 /\ k.prefix \in {4, 6, 7}
       \/ k.len = 33 /\ k.prefix \in {2, 3}

\* C4 amended: encrypt_message with a key string that is not hex, or whose
\* bytes are not a curve point in an encoding whose length matches its
\* first byte, returns None and never an envelope; a well-formed 33-byte
\* compressed key (first byte 0x02/0x03) is accepted.
C4_IllFormedKeyRejected ==
    cipher.pc # "start" =>
        /\ ~WellFormedKey(cipher.key) => cipher.env = None
        /\ (Encodable(cipher.msg) /\ \E priv \in PrivateKeys : cipher.key = CompressedKey(priv))
              => cipher.env # None

C4_Witness ==
    /\ cipher.pc = "encrypted"
    /\ cipher.key = KeyString(4, 10, TEST_PK_HEX_DID1)
    /\ cipher.env = None

(***************************************************************************)
(* Properties of the server and the client                                 *)
(***************************************************************************)
\* The event loop runs every task that can run and the network delivers
\* what was written; nothing obliges anyone to call, connect or cancel.
ConnectionStep(c) ==
    \/ client_connected_cb(c)
    \/ NetworkDeliver(c)
    \/ handle_connection(c)
    \/ \E resetSeen \in BOOLEAN : write_drain(c, resetSeen)
    \/ close_return(c)

Fairness == \A c \in Conns : WF_vars(ConnectionStep(c))

\* The runs of main_test's server, start_server(..., use_test_handler=True),
\* with every caller and peer of Next.
MainTestNext ==
    \/ create_task
    \/ CancelUnstarted
    \/ \E bindOk \in BOOLEAN : start_server(bindOk, TRUE)
    \/ \E waits \in BOOLEAN : CancelServer(waits)
    \/ ServerFullyClosed
    \/ \E c \in Conns : client_connected_cb(c)
    \/ \E c \in Conns : NetworkDeliver(c)
    \/ \E c \in Conns : handle_connection(c)
    \/ \E c \in Conns, did \in DIDStrings, message \in Plaintexts, rpcOk \in BOOLEAN :
          send_message_p2p(c, did, message, rpcOk)
    \/ \E c \in Conns : open_connection(c)
    \/ \E c \in Conns, resetSeen \in BOOLEAN : write_drain(c, resetSeen)
    \/ \E c \in Conns : close_return(c)
    \/ \E c \in Conns : drain_raises(c)
    \/ \E c \in Conns, finalized \in BOOLEAN : CancelSend(c, finalized)
    \/ \E c \in Conns : RawConnect(c)
    \/ \E c \in Conns : RawWrite(c)
    \/ \E c \in Conns : RawClose(c)

FairSpec == Init /\ [][MainTestNext]_vars /\ Fairness

Handled(c) == handler[c].pc = "done"

\* Slot c is a send_message_p2p call to a DID whose registered public key
\* is the public key of the server's private key.
SendToServerKey(c) ==
    /\ client[c].kind = "send"
    /\ client[c].did_info # None
    /\ client[c].did_info[1].publicKey \in PublicKeysOf(ServerPrivateKey)

\* The envelope of the call fits in the server's read buffer.
EnvelopeFits(c) ==
    client[c].payload # None /\ client[c].payload[1].n <= ReadBufSize

\* The server's one read returned the whole envelope the client wrote.
ReadWhole(c) == Handled(c) /\ handler[c].data = client[c].payload

\* C1 as stated: for every plaintext whose envelope fits in the read buffer,
\* a successful send to a DID registered with the server's key ends with
\* the test handler having put exactly that plaintext on test_message_queue.
C1_DeliversEveryPlaintext ==
    \A c \in Conns :
        (useTestHandler /\ SendToServerKey(c) /\ EnvelopeFits(c)
            /\ client[c].result = "True" /\ Handled(c))
            => handler[c].puts = << Some(client[c].msg) >>

\* A send C1 as amended speaks of: test handler, the server's key, a
\* non-empty plaintext (UTF-8 encodable, or there is no envelope) whose
\* envelope fits in the read buffer.
GoodSend(c) ==
    /\ useTestHandler
    /\ SendToServerKey(c)
    /\ EnvelopeFits(c)
    /\ client[c].msg # << >>

\* The ways a connected send may fail to be delivered that the amended C1
\* excludes: the server was cancelled before it accepted the connection,
\* or its one read returned before the whole envelope had arrived.
NotServed(c) ==
    \/ link[c].state = "dropped"
    \/ Handled(c) /\ ~ReadWhole(c)

\* C1 amended: for every non-empty, UTF-8 encodable plaintext p whose
\* envelope fits in the read buffer, if send_message_p2p has connected to a
\* server (test handler) whose private key matches the DID's registered
\* public key, and the server accepts the connection before it is
\* cancelled and its one read returns the whole envelope, then the send
\* returns True and the server eventually puts exactly p on
\* test_message_queue, not None and not any other string.
C1_Delivery ==
    /\ [](\A c \in Conns :
            /\ (GoodSend(c) /\ ReadWhole(c))
                  => handler[c].puts = << Some(client[c].msg) >>
            /\ (GoodSend(c) /\ link[c].state = "accepted" /\ client[c].pc = "done")
                  => client[c].result = "True")
    /\ \A c \in Conns :
          (GoodSend(c) /\ client[c].pc = "connected")
              ~> \/ /\ client[c].result = "True"
                    /\ handler[c].puts = << Some(client[c].msg) >>
                 \/ NotServed(c)

C1_Witness ==
    \E c \in Conns :
        /\ GoodSend(c)
        /\ client[c].result = "True"
        /\ ReadWhole(c)
        /\ handler[c].puts = << Some(client[c].msg) >>
        /\ test_message_queue = << Some(client[c].msg) >>

\* C3: for two distinct keypairs A and B and every plaintext p,
\* decrypt_message with B's private key on what encrypt_message made for
\* A's public key (every envelope a send has made) is None, never a
\* plaintext; and a server holding B's key puts no plaintext on the queue
\* for bytes of an envelope made for another key.
C3_KeyMismatch ==
    /\ \A c \in Conns, b \in PrivateKeys :
          (client[c].payload # None /\ client[c].payload[1].src.to # b)
              => decrypt_message(b, client[c].payload) = None
    /\ \A c \in Conns :
          (Handled(c) /\ handler[c].data # None
              /\ ~handler[c].data[1].src.garbage
              /\ handler[c].data[1].src.to # ServerPrivateKey)
              => \A i \in 1..Len(handler[c].puts) : handler[c].puts[i] = None

C3_Witness ==
    \E c \in Conns :
        /\ client[c].kind = "send"
        /\ client[c].did = "did2"
        /\ client[c].msg = LongestFitting
        /\ client[c].result = "True"
        /\ Handled(c)
        /\ handler[c].data = client[c].payload
        /\ handler[c].puts = << None >>

\* C5: when the registry reports the target DID as not registered, or
\* registered with an empty public key, send_message_p2p returns False
\* without opening a connection: nothing is written and the server sees
\* no connection from that call.
C5_UnregisteredDID ==
    \A c \in Conns :
        (client[c].kind = "send"
            /\ \/ ~isDIDRegistered(registry, generate_did_identifier(client[c].did))
               \/ getDIDInfo(registry, generate_did_identifier(client[c].did)).publicKey
                      = EmptyString)
            => /\ client[c].result = "False"
               /\ client[c].pc = "done"
               /\ client[c].stages = << "resolve" >>
               /\ link[c] = NoLink
               /\ handler[c] = NoHandler

C5_Witness ==
    /\ server = "Listening"
    /\ \E c \in Conns :
          /\ client[c].kind = "send" /\ client[c].did = "unknown-peer"
          /\ client[c].result = "False"
    /\ \E c \in Conns :
          /\ client[c].kind = "send" /\ client[c].did = "nokey"
          /\ client[c].result = "False"

\* C6 as stated: for every connection the server accepts, the message
\* handler is invoked exactly once (a plaintext or a failure signal),
\* also when the peer closes without sending anything.
C6_HandlerExactlyOnce ==
    \A c \in Conns :
        (useTestHandler /\ Handled(c)) => Len(handler[c].puts) = 1

\* The bytes a connection read are no valid envelope for the server's key.
BadBytes(c) ==
    /\ Handled(c)
    /\ handler[c].data # None
    /\ \/ handler[c].data[1].src.garbage
       \/ handler[c].data[1].src.to # ServerPrivateKey
       \/ handler[c].data[1].n < handler[c].data[1].src.len

C8_GracefulShutdown ==
    server = "Closed" =>
        \A c \in Conns : link[c].state = "accepted" => Handled(c)

\* C9: once the server task is cancelled no connection is accepted: every
\* accepted connection was accepted while the server was Listening.
C9_NoAcceptAfterCancel ==
    /\ [](\A c \in Conns :
            link[c].state = "accepted" => handler[c].acceptedWhen = "Listening")
    /\ [][(server \in {"Cancelled", "Closed"} =>
             (\A c \in Conns : link'[c].state = "accepted" => link[c].state = "accepted"))]_vars

C9_Witness ==
    /\ server = "Cancelled"
    /\ \E c \in Conns : link[c].state = "accepted" /\ handler[c].acceptedWhen = "Listening"
    /\ \E c \in Conns : link[c].state = "dropped" /\ client[c].result = "True"

\* How often an item occurs in a sequence.
Count(seq, item) == Cardinality({i \in 1..Len(seq) : seq[i] = item})

RECURSIVE TotalPuts(_, _)
TotalPuts(S, item) ==
    IF S = {} THEN 0
    ELSE LET c == CHOOSE x \in S : TRUE
         IN Count(handler[c].puts, item) + TotalPuts(S \ {c}, item)

\* Two sends to the server's key with different plaintexts, both returned
\* True and both handled.
TwoSendsServed(c, d) ==
    /\ c # d
    /\ useTestHandler
    /\ SendToServerKey(c) /\ SendToServerKey(d)
    /\ EnvelopeFits(c) /\ EnvelopeFits(d)
    /\ client[c].msg # client[d].msg
    /\ client[c].result = "True" /\ client[d].result = "True"
    /\ Handled(c) /\ Handled(d)

\* C10 as stated: two concurrent sends with different plaintexts to the
\* same server end, under every interleaving, with the handler invoked
\* once with each plaintext.
C10_AnyTwoPlaintexts ==
    \A c \in Conns, d \in Conns :
        TwoSendsServed(c, d) =>
            /\ handler[c].puts = << Some(client[c].msg) >>
            /\ handler[d].puts = << Some(client[d].msg) >>

\* C10 amended: two concurrent sends with different non-empty plaintexts,
\* each read whole by the server's one read, end under every interleaving
\* with the handler invoked exactly once for each of the two connections,
\* with that connection's plaintext (in either order on the queue); and
\* the bytes a connection's handler decrypts are always a prefix of the
\* bytes written on that same connection.
C10_Isolation ==
    /\ \A c \in Conns, d \in Conns :
          (TwoSendsServed(c, d) /\ GoodSend(c) /\ GoodSend(d)
              /\ ReadWhole(c) /\ ReadWhole(d))
              => /\ handler[c].puts = << Some(client[c].msg) >>
                 /\ handler[d].puts = << Some(client[d].msg) >>
    /\ \A c \in Conns :
          (Handled(c) /\ handler[c].data # None)
              => /\ link[c].wire # None
                 /\ handler[c].data[1].src = link[c].wire[1].src
    /\ \A i \in 1..Len(test_message_queue) :
          Count(test_message_queue, test_message_queue[i])
              = TotalPuts(Conns, test_message_queue[i])
    /\ \A c \in Conns : \A i \in 1..Len(handler[c].puts) :
          Count(test_message_queue, handler[c].puts[i]) >= 1

C10_Witness ==
    \E c \in Conns, d \in Conns :
        /\ TwoSendsServed(c, d) /\ GoodSend(c) /\ GoodSend(d)
        /\ ReadWhole(c) /\ ReadWhole(d)
        /\ c < d
        /\ handler[c].handledBefore = {}
        /\ handler[d].handledBefore = {}
        /\ test_message_queue = << Some(client[d].msg), Some(client[c].msg) >>

(***************************************************************************)
(* The result send_message_p2p returns to its caller                       *)
(***************************************************************************)
\* Slot c is a send_message_p2p call that has returned False.
FailedSend(c) ==
    /\ client[c].kind = "send"
    /\ client[c].pc = "done"
    /\ client[c].result = "False"

\* The last stage a call entered: the stage it failed at, for a failed call.
LastStage(c) == client[c].stages[Len(client[c].stages)]

\* C11 as stated: two sends that failed at different stages (resolution,
\* encryption, connection, transmission) returned different results to
\* their callers.
C11_DistinguishableFailures ==
    \A c \in Conns, d \in Conns :
        (FailedSend(c) /\ FailedSend(d) /\ LastStage(c) # LastStage(d))
            => client[c].result # client[d].result

\* C12: every send_message_p2p call that ends, and was not cancelled,
\* without having reached writer.close() - a failure of resolution,
\* encryption, connection or write - ends by returning False, never by
\* raising; and a call made after a
\* failed one behaves as if the failed one had not happened: what it
\* resolved and encrypted is what the registry and the cipher give for its
\* own arguments, and when it is a send to the server's key of a non-empty
\* fitting plaintext that the server read whole, it returned True and the
\* server enqueued exactly its plaintext.
C12_FailureIsReturnValue ==
    /\ \A c \in Conns :
          (client[c].kind = "send" /\ client[c].pc = "done"
              /\ client[c].result # "cancelled")
              => /\ client[c].result \in {"True", "False"}
                 /\ client[c].result = "False" <=> LastStage(c) # "close"
    /\ \A c \in Conns, d \in Conns :
          (FailedSend(c) /\ c < d /\ client[d].kind = "send")
              => /\ \E rpcOk \in BOOLEAN :
                       /\ client[d].did_info
                             = get_did_info(registry, generate_did_identifier(client[d].did), rpcOk)
                       /\ client[d].payload
                             = SendPrepare(registry, client[d].did, client[d].msg, rpcOk)
                 /\ (GoodSend(d) /\ ReadWhole(d))
                       => /\ client[d].pc = "done" => client[d].result = "True"
                          /\ handler[d].puts = << Some(client[d].msg) >>

C12_Witness ==
    \E c \in Conns, d \in Conns :
        /\ FailedSend(c) /\ c < d
        /\ LastStage(c) = "write"
        /\ GoodSend(d) /\ ReadWhole(d)
        /\ client[d].result = "True"
        /\ test_message_queue = << Some(client[d].msg) >>

\* C13: one call of send_message_p2p resolves at most once, encrypts at
\* most once and attempts at most one connection (and writes and closes
\* at most once), on the path that returns True and on every path that
\* returns False.
C13_NoRetries ==
    \A c \in Conns :
        client[c].kind = "send"
            => \A stage \in {"resolve", "encrypt", "connect", "write", "close"} :
                   Count(client[c].stages, stage) <= 1

C13_Witness ==
    \E c \in Conns, d \in Conns :
        /\ FailedSend(c) /\ client[c].stages = << "resolve", "encrypt", "connect" >>
        /\ client[d].kind = "send" /\ client[d].result = "True"
        /\ client[d].stages = << "resolve", "encrypt", "connect", "write", "close" >>

\* C14: every send_message_p2p call reads the registry itself: what it
\* resolved is the entry the registry holds at the call, and the envelope
\* it made is addressed to the public key of that entry, also when the
\* key published for the DID was changed after an earlier send to the same
\* DID; and what a call resolved and encrypted is never replaced later.
C14_ResolveFresh ==
    [][ ( \A c \in Conns :
            /\ (client[c].pc = "idle" /\ client'[c].kind = "send")
                  => LET did == generate_did_identifier(client'[c].did)
                     IN /\ client'[c].did_info # None
                              => /\ registry[did].registered
                                 /\ client'[c].did_info[1].publicKey
                                       = registry[did].publicKey
                        /\ client'[c].payload # None
                              => /\ client'[c].did_info # None
                                 /\ client'[c].payload[1].src.to
                                       = registry[did].publicKey.point
            /\ client[c].kind = "send"
                  => /\ client'[c].did_info = client[c].did_info
                     /\ client'[c].payload = client[c].payload ) ]_vars

C14_Witness ==
    \E c \in Conns, d \in Conns :
        /\ c < d
        /\ client[c].kind = "send" /\ client[d].kind = "send"
        /\ client[c].did = client[d].did
        /\ client[c].payload # None /\ client[d].payload # None
        /\ client[c].payload[1].src.to = TEST_PK_HEX_DID1
        /\ client[d].payload[1].src.to = TEST_PK_HEX_DID2
        /\ registry # InitialRegistry

\* C15 as stated: once the start has returned its handle to the caller the
\* server is bound and accepting (or was, until its shutdown was asked
\* for), and a start on an unavailable address has failed with the bind
\* error instead of returning a handle.
C15_StartContract ==
    server # "Idle" => server \in {"Listening", "Cancelled", "Closed", "Abandoned"}

\* A handler that is still running (slow: waiting in its read) or has
\* failed (put the failure signal).
SlowOrFailed(c) ==
    \/ handler[c].pc = "read"
    \/ Handled(c) /\ handler[c].puts = << None >>

\* C16: while the handler of one connection is slow or after it has failed,
\* the listening server still accepts every other pending connection, the
\* handler of every other accepted connection with bytes to read can run,
\* and another connection's valid send, read whole, is delivered as its
\* plaintext.
C16_HandlerIndependence ==
    \A c \in Conns, d \in Conns :
        (c # d /\ SlowOrFailed(c))
            => /\ (server = "Listening" /\ link[d].state = "backlog")
                     => ENABLED client_connected_cb(d)
               /\ (handler[d].pc = "read" /\ link[d].arrived > 0)
                     => ENABLED handle_connection(d)
               /\ (GoodSend(d) /\ ReadWhole(d))
                     => handler[d].puts = << Some(client[d].msg) >>

C16_Witness ==
    \E c \in Conns, d \in Conns :
        /\ c < d
        /\ handler[c].pc = "read" /\ link[c].arrived = 0
        /\ handler[d].acceptedWhen = "Listening"
        /\ GoodSend(d) /\ ReadWhole(d)
        /\ test_message_queue = << Some(client[d].msg) >>
        /\ server = "Listening"

\* C17 as stated: a send_message_p2p call cancelled after its connection
\* was opened and before it closed it has its connection closed by the
\* client: no cancelled send leaves an open connection behind.
C17_CancelledSendCloses ==
    \A c \in Conns :
        client[c].result = "cancelled" => client[c].closed

(***************************************************************************)
(* Project tokens (project_management.py) and contribution proposals       *)
(* (contribution_workflow.py).  Both modules keep their data in a JSON     *)
(* file that every call loads, changes and saves again.                    *)
(***************************************************************************)
MaxSupply == 2
MaxProposals == 1

\* The DID strings the callers pass; "unknown-peer" is not registered.
LedgerDIDs == {"did1", "did2", "nokey", "unknown-peer"}
OwnerArgs == {"did1", "unknown-peer"}
ContributorArgs == {"did1", "did2", "unknown-peer"}
ReviewerArgs == {"did1", "did2"}
ProjectNames == {"Alpha", "alpha"}
ProjectIdArgs == {"alpha"}
\* _generate_proposal_id: "prop-" and a fresh uuid
ProposalIds == { << "prop", n >> : n \in 1 .. MaxProposals }
Amounts == (0 - 1) .. (MaxSupply + 1)
\* create_project takes any int as token_supply (the command line's --supply
\* is type=int)
SupplyArgs == {0 - 1, MaxSupply}

StatusArgs == {"approved", "rejected", "merged"}

\* open(FILE, "w") + json.dump: the file is rewritten, or open() raises and
\* the file is as it was, or the dump stops part way and leaves no JSON.
SaveOutcomes == {"saved", "refused", "partial"}

\* did_system.is_did_registered(did_bytes32), the contract being reachable
is_did_registered(reg, did_bytes32) ==
    /\ did_bytes32 \in DOMAIN reg
    /\ isDIDRegistered(reg, did_bytes32)

\* lower-casing and hyphenation of the name
sanitize_project_name_to_id(project_name) ==
    CASE project_name = "Alpha" -> "alpha"
      [] project_name = "alpha" -> "alpha"
      [] OTHER -> project_name

\* _load_projects / _load_contributions: [] when there is no readable JSON
load_json(file) == IF file = None THEN << >> ELSE file[1]

\* _save_projects / _save_contributions
save_json(file, data, outcome) ==
    CASE outcome = "saved" -> Some(data)
      [] outcome = "refused" -> file
      [] OTHER -> None

\* the ways one save can end: whether it returned True, and the file after it
Saves(file, data) ==
    { [ok |-> outcome = "saved", file |-> save_json(file, data, outcome)] :
        outcome \in SaveOutcomes }

\* for i, p in enumerate(...): if p.get(key) == id: break -- the first
\* match, 0 when there is none
FirstOf(hits) ==
    IF hits = {} THEN 0 ELSE CHOOSE i \in hits : \A j \in hits : i <= j

ProjectIndex(projects, project_id) ==
    FirstOf({ i \in 1 .. Len(projects) : projects[i].project_id = project_id })

ProposalIndex(contributions, proposal_id) ==
    FirstOf({ i \in 1 .. Len(contributions) :
                contributions[i].proposal_id = proposal_id })

\* project_management.get_project: None or the project record
get_project(file, project_id) ==
    LET projects == load_json(file)
        i == ProjectIndex(projects, project_id)
    IN  IF i = 0 THEN None ELSE Some(projects[i])

\* token_ledger.get(did, 0)
Balance(token_ledger, did) ==
    IF did \in DOMAIN token_ledger THEN token_ledger[did] ELSE 0

\* token_ledger[did] = value
SetBalance(token_ledger, did, value) ==
    [d \in DOMAIN token_ledger \cup {did} |->
        IF d = did THEN value ELSE token_ledger[d]]

\* A transfer that never finds the balance too small.
InsufficientBalance_never(sender_balance, amount) == FALSE

\* transfer_project_tokens, step 3: the sender cannot cover the amount
InsufficientBalance(sender_balance, amount) == sender_balance < amount

\* A transfer that stores the amount as the receiver's balance.
UpdateLedger_overwrite(token_ledger, sender_did, receiver_did, sender_balance, amount) ==
    SetBalance(SetBalance(token_ledger, sender_did, sender_balance - amount),
               receiver_did, amount)

\* transfer_project_tokens, step 4: the sender is debited, then the
\* receiver's balance is read and credited
UpdateLedger(token_ledger, sender_did, receiver_did, sender_balance, amount) ==
    LET debited == SetBalance(token_ledger, sender_did, sender_balance - amount)
        receiver_balance == Balance(debited, receiver_did)
    IN  SetBalance(debited, receiver_did, receiver_balance + amount)

\* What a call returns and what it leaves in projects.json.
Returns(result, file) == [result |-> result, file |-> file]

transfer_project_tokens(file, reg, project_id, sender_did, receiver_did, amount, outcome) ==
    IF amount <= 0 THEN Returns(FALSE, file)
    ELSE IF ~is_did_registered(reg, generate_did_identifier(sender_did))
         THEN Returns(FALSE, file)
    ELSE IF ~is_did_registered(reg, generate_did_identifier(receiver_did))
         THEN Returns(FALSE, file)
    ELSE IF sender_did = receiver_did THEN Returns(FALSE, file)
    ELSE
      LET projects == load_json(file)
          target_project_index == ProjectIndex(projects, project_id)
      IN  IF target_project_index = 0 THEN Returns(FALSE, file)
          ELSE
            LET token_ledger == projects[target_project_index].token_ledger
                sender_balance == Balance(token_ledger, sender_did)
            IN  IF InsufficientBalance(sender_balance, amount)
                THEN Returns(FALSE, file)
                ELSE
                  LET updated == UpdateLedger(token_ledger, sender_did,
                                              receiver_did, sender_balance,
                                              amount)
                      saved == [projects EXCEPT
                                  ![target_project_index].token_ledger = updated]
                  IN  Returns(outcome = "saved",
                              save_json(file, saved, outcome))

\* A caller of transfer_project_tokens.
TransferCall(project_id, sender_did, receiver_did, amount) ==
    \E r \in { transfer_project_tokens(projects_file, registry, project_id,
                                       sender_did, receiver_did, amount,
                                       outcome) : outcome \in SaveOutcomes } :
        /\ projects_file' = r.file
        /\ ret' = [op |-> "transfer", project_id |-> project_id,
                   sender_did |-> sender_did, receiver_did |-> receiver_did,
                   amount |-> amount, result |-> r.result]
        /\ UNCHANGED << registry, server, useTestHandler, waitClosedWaits,
                        client, link, handler, test_message_queue, cipher,
                        contributions_file >>

create_project(project_name, owner_did, token_supply, repoOk) ==
    LET project_id == sanitize_project_name_to_id(project_name)
        projects == load_json(projects_file)
        created == /\ is_did_registered(registry,
                                        generate_did_identifier(owner_did))
                   /\ ProjectIndex(projects, project_id) = 0
                   /\ repoOk
        new_project_data == [project_id |-> project_id,
                             owner_did |-> owner_did,
                             token_supply |-> token_supply,
                             token_ledger |->
                                 [d \in {owner_did} |-> token_supply]]
    IN  /\ IF created
           THEN \E save \in Saves(projects_file,
                                  Append(projects, new_project_data)) :
                   /\ projects_file' = save.file
                   /\ ret' = [op |-> "create", result |-> save.ok]
           ELSE /\ projects_file' = projects_file
                /\ ret' = [op |-> "create", result |-> FALSE]
        /\ UNCHANGED << registry, server, useTestHandler, waitClosedWaits,
                        client, link, handler, test_message_queue, cipher,
                        contributions_file >>

submit_contribution(project_id, contributor_did, proposal_id, ipfsOk) ==
    LET contributions == load_json(contributions_file)
        accepted == /\ get_project(projects_file, project_id) # None
                    /\ is_did_registered(registry,
                           generate_did_identifier(contributor_did))
                    /\ ipfsOk
        new_proposal == [proposal_id |-> proposal_id,
                         project_id |-> project_id,
                         contributor_did |-> contributor_did,
                         status |-> "pending",
                         reviewer_did |-> None,
                         reward_amount |-> 0]
    IN  /\ Len(contributions) < MaxProposals
        /\ ProposalIndex(contributions, proposal_id) = 0
        /\ IF accepted
           THEN \E save \in Saves(contributions_file,
                                  Append(contributions, new_proposal)) :
                   /\ contributions_file' = save.file
                   /\ ret' = [op |-> "submit", result |-> save.ok]
           ELSE /\ contributions_file' = contributions_file
                /\ ret' = [op |-> "submit", result |-> FALSE]
        /\ UNCHANGED << registry, server, useTestHandler, waitClosedWaits,
                        client, link, handler, test_message_queue, cipher,
                        projects_file >>

\* A review that accepts any reviewer.
ReviewerIsAnyone(reviewer_did, project_owner_did) == TRUE

\* review_contribution, step 3: only the project owner may review
ReviewerIsOwner(reviewer_did, project_owner_did) ==
    reviewer_did = project_owner_did

\* review_contribution returning False before it changed anything
ReviewRefused(proposal_id, reviewer_did, new_status, reward_amount) ==
    /\ ret' = [op |-> "review", proposal_id |-> proposal_id,
               reviewer_did |-> reviewer_did, new_status |-> new_status,
               reward_amount |-> reward_amount, result |-> FALSE,
               transfer |-> None]
    /\ UNCHANGED << projects_file, contributions_file >>

review_contribution(proposal_id, reviewer_did, new_status, reward_amount) ==
    LET contributions == load_json(contributions_file)
        proposal_index == ProposalIndex(contributions, proposal_id)
    IN
    /\ UNCHANGED << registry, server, useTestHandler, waitClosedWaits,
                    client, link, handler, test_message_queue, cipher >>
    /\ IF proposal_index = 0
       THEN ReviewRefused(proposal_id, reviewer_did, new_status, reward_amount)
       ELSE
         LET contribution_data == contributions[proposal_index]
             project_id == contribution_data.project_id
             project_data == get_project(projects_file, project_id)
         IN
         IF project_data = None
         THEN ReviewRefused(proposal_id, reviewer_did, new_status,
                            reward_amount)
         ELSE IF ~ReviewerIsOwner(reviewer_did, project_data[1].owner_did)
         THEN ReviewRefused(proposal_id, reviewer_did, new_status,
                            reward_amount)
         ELSE IF new_status \notin {"approved", "rejected", "pending"}
         THEN ReviewRefused(proposal_id, reviewer_did, new_status,
                            reward_amount)
         ELSE
           LET project_owner_did == project_data[1].owner_did
               reviewed == [contribution_data EXCEPT
                              !.status = new_status,
                              !.reviewer_did = Some(reviewer_did),
                              !.reward_amount =
                                  IF new_status = "approved"
                                  THEN reward_amount ELSE 0]
               updated == [contributions EXCEPT ![proposal_index] = reviewed]
               pays == new_status = "approved" /\ reward_amount > 0
               transfers ==
                   IF pays
                   THEN { Some(transfer_project_tokens(projects_file,
                              registry, project_id, project_owner_did,
                              contribution_data.contributor_did,
                              reward_amount, outcome)) :
                          outcome \in SaveOutcomes }
                   ELSE { None }
           IN
           \E t \in transfers, save \in Saves(contributions_file, updated) :
              /\ projects_file' = IF t = None THEN projects_file
                                  ELSE t[1].file
              /\ contributions_file' = save.file
              /\ ret' = [op |-> "review", proposal_id |-> proposal_id,
                         reviewer_did |-> reviewer_did,
                         new_status |-> new_status,
                         reward_amount |-> reward_amount,
                         result |-> IF t # None /\ ~t[1].result THEN FALSE
                                    ELSE save.ok,
                         transfer |-> IF t = None THEN None
                                      ELSE Some(t[1].result)]

LedgerNext ==
    \/ \E project_name \in ProjectNames, owner_did \in OwnerArgs,
          token_supply \in SupplyArgs, repoOk \in BOOLEAN :
          create_project(project_name, owner_did, token_supply, repoOk)
    \/ \E project_id \in ProjectIdArgs, sender_did \in LedgerDIDs,
          receiver_did \in LedgerDIDs, amount \in Amounts :
          TransferCall(project_id, sender_did, receiver_did, amount)
    \/ \E project_id \in ProjectIdArgs, contributor_did \in ContributorArgs,
          proposal_id \in ProposalIds, ipfsOk \in BOOLEAN :
          submit_contribution(project_id, contributor_did, proposal_id, ipfsOk)
    \/ \E proposal_id \in ProposalIds, reviewer_did \in ReviewerArgs,
          new_status \in StatusArgs, reward_amount \in Amounts :
          review_contribution(proposal_id, reviewer_did, new_status,
                              reward_amount)

LedgerSpec == Init /\ [][LedgerNext]_vars

(***************************************************************************)
(* Token ledger and review properties                                      *)
(***************************************************************************)
\* the token ledger of a project in projects.json; empty when there is none
ProjectLedger(file, project_id) ==
    LET project_data == get_project(file, project_id)
    IN  IF project_data = None THEN [d \in {} |-> 0]
        ELSE project_data[1].token_ledger

BalanceIn(file, project_id, did) ==
    Balance(ProjectLedger(file, project_id), did)

Registered(did) ==
    is_did_registered(registry, generate_did_identifier(did))

\* contribution_workflow.get_contribution: None or the proposal record
get_contribution(file, proposal_id) ==
    LET contributions == load_json(file)
        i == ProposalIndex(contributions, proposal_id)
    IN  IF i = 0 THEN None ELSE Some(contributions[i])

\* This step took amount from sender to receiver in the project's ledger and
\* touched no other balance of it.
Moved(project_id, sender_did, receiver_did, amount) ==
    LET before == ProjectLedger(projects_file, project_id)
        after == ProjectLedger(projects_file', project_id)
    IN  /\ Balance(after, sender_did) = Balance(before, sender_did) - amount
        /\ Balance(after, receiver_did) = Balance(before, receiver_did) + amount
        /\ \A d \in (DOMAIN before \cup DOMAIN after \cup LedgerDIDs)
                      \ {sender_did, receiver_did} :
              Balance(after, d) = Balance(before, d)

\* The proposal a review call names and the project it belongs to, as they
\* were stored when the call was made.
ReviewedProposal(proposal_id) ==
    get_contribution(contributions_file, proposal_id)

ReviewedProject(proposal_id) ==
    IF ReviewedProposal(proposal_id) = None THEN None
    ELSE get_project(projects_file,
                     ReviewedProposal(proposal_id)[1].project_id)

\* C18: whenever transfer_project_tokens returns True for amount a, called
\* directly or by an approving review_contribution with a positive reward,
\* the sender's balance is a lower than before the call, the receiver's is
\* a higher, and every other balance of that project's ledger is as before.
C18_SuccessfulTransfer ==
    [][( /\ (ret'.op = "transfer" /\ ret'.result)
              => Moved(ret'.project_id, ret'.sender_did, ret'.receiver_did,
                       ret'.amount)
         /\ (ret'.op = "review" /\ ret'.transfer = Some(TRUE))
              => Moved(ReviewedProposal(ret'.proposal_id)[1].project_id,
                       ReviewedProject(ret'.proposal_id)[1].owner_did,
                       ReviewedProposal(ret'.proposal_id)[1].contributor_did,
                       ret'.reward_amount) )]_vars

\* A transfer has just succeeded in a ledger where a third DID holds tokens.
C18_Witness ==
    /\ ret.op = "transfer"
    /\ ret.result
    /\ \E d \in LedgerDIDs \ {ret.sender_did, ret.receiver_did} :
          BalanceIn(projects_file, ret.project_id, d) > 0

\* the reasons for which C19 says a transfer is rejected
RejectedArgs(project_id, sender_did, receiver_did, amount) ==
    \/ amount <= 0
    \/ sender_did = receiver_did
    \/ ~Registered(sender_did)
    \/ ~Registered(receiver_did)
    \/ BalanceIn(projects_file, project_id, sender_did) < amount

\* an approving review by the owner whose reward exceeds the owner's balance
RewardBeyondBalance(proposal_id, reviewer_did, new_status, reward_amount) ==
    /\ ReviewedProject(proposal_id) # None
    /\ reviewer_did = ReviewedProject(proposal_id)[1].owner_did
    /\ new_status = "approved"
    /\ reward_amount > Balance(ReviewedProject(proposal_id)[1].token_ledger,
                               reviewer_did)

PositiveRewardBeyondBalance(proposal_id, reviewer_did, new_status, reward_amount) ==
    /\ reward_amount > 0
    /\ RewardBeyondBalance(proposal_id, reviewer_did, new_status, reward_amount)

ReviewFields(file, proposal_id) ==
    LET p == get_contribution(file, proposal_id)
    IN  IF p = None THEN None
        ELSE << p[1].status, p[1].reviewer_did, p[1].reward_amount >>

\* C20: review_contribution called for a stored proposal of an existing
\* project by a reviewer who is not that project's owner returns False, and
\* the proposal's status, reviewer_did and reward_amount and the project's
\* token ledger are as they were before the call.
C20_UnauthorizedReview ==
    [][( ( /\ ret'.op = "review"
           /\ ReviewedProject(ret'.proposal_id) # None
           /\ ret'.reviewer_did # ReviewedProject(ret'.proposal_id)[1].owner_did )
         => /\ ~ret'.result
            /\ ReviewFields(contributions_file', ret'.proposal_id)
                 = ReviewFields(contributions_file, ret'.proposal_id)
            /\ ProjectLedger(projects_file',
                             ReviewedProposal(ret'.proposal_id)[1].project_id)
                 = ProjectLedger(projects_file,
                                 ReviewedProposal(ret'.proposal_id)[1].project_id) )]_vars

\* A reviewer who is not the owner has just tried to approve a pending
\* proposal with a reward the owner could have paid.
C20_Witness ==
    /\ ret.op = "review"
    /\ ~ret.result
    /\ ReviewedProject(ret.proposal_id) # None
    /\ ret.reviewer_did # ReviewedProject(ret.proposal_id)[1].owner_did
    /\ ret.new_status = "approved"
    /\ ret.reward_amount > 0
    /\ ret.reward_amount <=
          Balance(ReviewedProject(ret.proposal_id)[1].token_ledger,
                  ReviewedProject(ret.proposal_id)[1].owner_did)
    /\ ReviewedProposal(ret.proposal_id)[1].status = "pending"

(***************************************************************************)
(* Writers of the DID registry: register_did, update_public_key and        *)
(* update_document_cid of did_system.py, each a check against the contract *)
(* followed by a signed transaction that the contract may revert.          *)
(***************************************************************************)
\* Ethereum accounts, named by the private key that signs for them.
Accounts == PrivateKeys
DocumentCIDs == {"QmP2PServerCID", "QmUpdatedCID"}
WrittenDIDs == {"did1", "unknown-peer"}

\* A contract that lets any account update a registered DID.
anyDIDSender(reg, did, sender) == reg[did].registered

\* DIDRegistry: updates revert unless msg.sender is the DID's owner
onlyDIDOwner(reg, did, sender) ==
    /\ reg[did].registered
    /\ reg[did].owner = sender

\* DIDRegistry.registerDID(did, publicKey, documentCID) sent by sender; it
\* reverts when the DID is registered.
registerDID(reg, did, public_key, document_cid, sender) ==
    IF reg[did].registered THEN [ok |-> FALSE, reg |-> reg]
    ELSE [ok |-> TRUE,
          reg |-> [reg EXCEPT ![did] = [registered |-> TRUE, owner |-> sender,
                                        publicKey |-> public_key,
                                        documentCID |-> document_cid]]]

\* DIDRegistry.getDIDOwner(did)
getDIDOwner(reg, did) == reg[did].owner

\* DIDRegistry.updateDocumentCID(did, newDocumentCID), by the owner only.
updateDocumentCID(reg, did, new_document_cid) ==
    [reg EXCEPT ![did].documentCID = new_document_cid]

\* What a registry call leaves in ret.
RegistryReturn(op, did_bytes32, owner_eth_address, signer, result) ==
    [op |-> op, did |-> did_bytes32, owner_eth_address |-> owner_eth_address,
     signer |-> signer, result |-> result]

\* register_did; signer is the account of owner_eth_private_key, txOk whether
\* the node accepted and mined the transaction.
register_did(did_bytes32, public_key, document_cid, owner_eth_address, signer, txOk) ==
    LET sent == /\ ~isDIDRegistered(registry, did_bytes32)
                /\ txOk
        tx == registerDID(registry, did_bytes32, public_key, document_cid, signer)
    IN  /\ registry' = IF sent THEN tx.reg ELSE registry
        /\ ret' = RegistryReturn("register_did", did_bytes32, owner_eth_address,
                                 signer, sent /\ tx.ok)
        /\ UNCHANGED << server, useTestHandler, waitClosedWaits, client, link,
                        handler, test_message_queue, cipher, projects_file,
                        contributions_file >>

\* update_public_key, the whole call with what it returns: False before any
\* transaction when the DID is not registered or owner_eth_address is not its
\* owner, False when the contract reverts the signer's transaction.
update_public_key_as(did_bytes32, new_public_key, owner_eth_address, signer, txOk) ==
    LET updated == /\ isDIDRegistered(registry, did_bytes32)
                   /\ getDIDOwner(registry, did_bytes32) = owner_eth_address
                   /\ txOk
                   /\ onlyDIDOwner(registry, did_bytes32, signer)
    IN  /\ registry' = IF updated
                       THEN updatePublicKey(registry, did_bytes32, new_public_key)
                       ELSE registry
        /\ ret' = RegistryReturn("update_public_key", did_bytes32,
                                 owner_eth_address, signer, updated)
        /\ UNCHANGED << server, useTestHandler, waitClosedWaits, client, link,
                        handler, test_message_queue, cipher, projects_file,
                        contributions_file >>

update_document_cid(did_bytes32, new_document_cid, owner_eth_address, signer, txOk) ==
    LET updated == /\ isDIDRegistered(registry, did_bytes32)
                   /\ getDIDOwner(registry, did_bytes32) = owner_eth_address
                   /\ txOk
                   /\ onlyDIDOwner(registry, did_bytes32, signer)
    IN  /\ registry' = IF updated
                       THEN updateDocumentCID(registry, did_bytes32,
                                              new_document_cid)
                       ELSE registry
        /\ ret' = RegistryReturn("update_document_cid", did_bytes32,
                                 owner_eth_address, signer, updated)
        /\ UNCHANGED << server, useTestHandler, waitClosedWaits, client, link,
                        handler, test_message_queue, cipher, projects_file,
                        contributions_file >>

DidNext ==
    \/ \E did \in WrittenDIDs, public_key \in RotatedKeys,
          document_cid \in DocumentCIDs, owner_eth_address \in Accounts,
          signer \in Accounts, txOk \in BOOLEAN :
          register_did(generate_did_identifier(did), public_key, document_cid,
                       owner_eth_address, signer, txOk)
    \/ \E did \in WrittenDIDs, new_public_key \in RotatedKeys,
          owner_eth_address \in Accounts, signer \in Accounts,
          txOk \in BOOLEAN :
          update_public_key_as(generate_did_identifier(did), new_public_key,
                               owner_eth_address, signer, txOk)
    \/ \E did \in WrittenDIDs, new_document_cid \in DocumentCIDs,
          owner_eth_address \in Accounts, signer \in Accounts,
          txOk \in BOOLEAN :
          update_document_cid(generate_did_identifier(did), new_document_cid,
                              owner_eth_address, signer, txOk)

DidSpec == Init /\ [][DidNext]_vars

\* the caller of an update is the DID's owner, by the address it names and
\* by the key it signs with
CalledByOwner(did, owner_eth_address, signer) ==
    /\ isDIDRegistered(registry, did)
    /\ getDIDOwner(registry, did) = owner_eth_address
    /\ getDIDOwner(registry, did) = signer

\* C21: register_did on a registered DID returns False and leaves its entry
\* (owner, public key, document CID) as it was; update_public_key and
\* update_document_cid called by anyone but the DID's owner return False and
\* leave the entry as it was; no step changes the owner of a registered DID
\* or unregisters it.
C21_WriteProtection ==
    [][( /\ (ret'.op = "register_did" /\ isDIDRegistered(registry, ret'.did))
              => /\ ~ret'.result
                 /\ registry'[ret'.did] = registry[ret'.did]
         /\ ( /\ ret'.op \in {"update_public_key", "update_document_cid"}
              /\ ~CalledByOwner(ret'.did, ret'.owner_eth_address, ret'.signer) )
              => /\ ~ret'.result
                 /\ registry'[ret'.did] = registry[ret'.did]
         /\ \A d \in DOMAIN registry :
               registry[d].registered
                 => /\ registry'[d].registered
                    /\ registry'[d].owner = registry[d].owner )]_vars

\* An account that is not the owner named the owner's address, signed the
\* update with its own key and was refused.
C21_Witness ==
    /\ ret.op = "update_public_key"
    /\ ~ret.result
    /\ isDIDRegistered(registry, ret.did)
    /\ getDIDOwner(registry, ret.did) = ret.owner_eth_address
    /\ getDIDOwner(registry, ret.did) # ret.signer

(***************************************************************************)
(* Order of the stages of a send                                           *)
(***************************************************************************)
SendStages == << "resolve", "encrypt", "connect", "write", "close" >>

IsPrefix(s, t) == Len(s) <= Len(t) /\ SubSeq(t, 1, Len(s)) = s

\* a connection was attempted for the call in slot c
ConnectAttempted(c) ==
    \/ link[c].state # "none"
    \/ \E i \in 1 .. Len(client[c].stages) : client[c].stages[i] = "connect"

\* C22: the stages a send_message_p2p call has gone through are always an
\* initial part of resolve, encrypt, connect, write, close; a connection is
\* attempted only for a call that resolved the DID and got a payload from
\* the encryption; True is returned only after all five stages, with the
\* whole payload written and the client's side closed.
C22_StageOrdering ==
    \A c \in Conns :
        client[c].kind = "send" =>
            /\ IsPrefix(client[c].stages, SendStages)
            /\ ConnectAttempted(c) =>
                  /\ client[c].did_info # None
                  /\ client[c].payload # None
            /\ client[c].result = "True" =>
                  /\ client[c].stages = SendStages
                  /\ link[c].wire = client[c].payload
                  /\ client[c].closed

\* A send to the DID with the 10-byte key returned False after the
\* encryption stage while the server was listening, with no connection.
C22_Witness ==
    \E c \in Conns :
        /\ client[c].kind = "send"
        /\ client[c].did = "short"
        /\ client[c].result = "False"
        /\ client[c].stages = << "resolve", "encrypt" >>
        /\ link[c].state = "none"
        /\ server = "Listening"

(***************************************************************************)
(* Server lifecycle                                                        *)
(***************************************************************************)
\* The lifecycle state of the claim that a state of the server task stands
\* for: before asyncio.start_server has bound, the server is Idle.
LifecycleState(s) ==
    IF s \in {"Idle", "Starting", "BindFailed", "Abandoned"} THEN "Idle" ELSE s

LifecycleMoves ==
    { << "Idle", "Listening" >>, << "Listening", "Cancelled" >>,
      << "Cancelled", "Closed" >> }

\* an accepted connection whose handler has not finished
InFlight(c) == link[c].state = "accepted" /\ handler[c].pc # "done"

\* C23 as stated: the server changes state only from Idle to Listening, from
\* Listening to Cancelled and from Cancelled to Closed, and it becomes
\* Closed only when no accepted connection is still in flight.
C23_ServerLifecycle ==
    [][( /\ LifecycleState(server') # LifecycleState(server)
            => << LifecycleState(server), LifecycleState(server') >>
                  \in LifecycleMoves
         /\ (server' = "Closed" /\ server # "Closed")
            => \A c \in Conns : ~InFlight(c) )]_vars

(***************************************************************************)
(* A peer that writes two messages on one connection: an envelope for the  *)
(* server followed by a second one of the same length.  On the wire this   *)
(* is [src, n] with n beyond src.len: the first envelope and the bytes     *)
(* that follow it.                                                         *)
(***************************************************************************)
FirstOfTwo ==
    encrypt_message(get_hex_public_key_from_private(ServerPrivateKey),
                    Str(104, 1) \o Str(233, 1))[1].src

\* The peer resets the connection instead of closing it.
RawAbort(c) ==
    /\ client[c].kind = "raw"
    /\ client[c].pc \in {"connected", "written"}
    /\ client' = [client EXCEPT ![c].pc = "done", ![c].closed = TRUE]
    /\ link' = [link EXCEPT ![c].rst = TRUE]
    /\ UNCHANGED << registry, server, useTestHandler, waitClosedWaits, handler,
                    test_message_queue, cipher, projects_file,
                    contributions_file, ret >>

RawWriteTwo(c) ==
    /\ client[c].kind = "raw"
    /\ client[c].pc = "connected"
    /\ client' = [client EXCEPT ![c].pc = "written"]
    /\ link' = [link EXCEPT ![c].wire =
                   Some([src |-> FirstOfTwo, n |-> 2 * FirstOfTwo.len])]
    /\ UNCHANGED << registry, server, useTestHandler, waitClosedWaits, handler,
                    test_message_queue, cipher, projects_file,
                    contributions_file, ret >>

\* The test-handler server with senders to its own DID and peers that write
\* two messages.
StreamNext ==
    \/ create_task
    \/ \E bindOk \in BOOLEAN : start_server(bindOk, TRUE)
    \/ \E waits \in BOOLEAN : CancelServer(waits)
    \/ ServerFullyClosed
    \/ \E c \in Conns : client_connected_cb(c)
    \/ \E c \in Conns : NetworkDeliver(c)
    \/ \E c \in Conns : handle_connection(c)
    \/ \E c \in Conns, message \in Plaintexts :
          send_message_p2p(c, "did1", message, TRUE)
    \/ \E c \in Conns : open_connection(c)
    \/ \E c \in Conns, resetSeen \in BOOLEAN : write_drain(c, resetSeen)
    \/ \E c \in Conns : close_return(c)
    \/ \E c \in Conns : RawConnect(c)
    \/ \E c \in Conns : RawWriteTwo(c)
    \/ \E c \in Conns : RawClose(c)
    \/ \E c \in Conns : RawAbort(c)

StreamSpec == Init /\ [][StreamNext]_vars

\* the bytes the handler of connection c got from its read are the first
\* bytes, at most ReadBufSize of them, of what the peer wrote
ReadIsBoundedPrefix(c) ==
    \/ handler[c].data = None
    \/ /\ link[c].wire # None
       /\ handler[c].data[1].src = link[c].wire[1].src
       /\ handler[c].data[1].n <= ReadBufSize
       /\ handler[c].data[1].n <= link[c].wire[1].n

\* C24: a connection handler that has finished made one read of at most
\* 4096 bytes from the start of what the peer wrote, decrypted exactly
\* those bytes (unless the read raised) and put at most one item; what it put is a message only if
\* the read ended exactly at the end of the first envelope, so no envelope
\* longer than 4096 bytes and no second message is ever delivered; and a
\* finished handler never reads, decrypts or puts again.
C24_OneShotRead ==
    /\ [](\A c \in Conns :
            Handled(c) =>
               /\ ReadIsBoundedPrefix(c)
               /\ ~handler[c].raised
                     => handler[c].puts = HandlerPuts(handler[c].data)
               /\ Len(handler[c].puts) <= 1
               /\ (Len(handler[c].puts) = 1 /\ handler[c].puts[1] # None)
                     => /\ handler[c].data[1].n = link[c].wire[1].src.len
                        /\ link[c].wire[1].src.len <= ReadBufSize
                        /\ Some(handler[c].puts[1][1])
                             = bytes_decode(link[c].wire[1].src.body))
    /\ [][(\A c \in Conns : Handled(c) => handler'[c] = handler[c])]_vars

\* Of the two messages a peer wrote on one connection the first was
\* delivered; the second was not read.
C24_Witness ==
    \E c \in Conns :
        /\ client[c].kind = "raw"
        /\ Handled(c)
        /\ link[c].wire # None
        /\ link[c].wire[1].n = 2 * FirstOfTwo.len
        /\ handler[c].data # None
        /\ handler[c].data[1].n = FirstOfTwo.len
        /\ handler[c].puts = << Some(Str(104, 1) \o Str(233, 1)) >>

(***************************************************************************)
(* The protocol is one-way                                                 *)
(***************************************************************************)
\* the four ways a handler ends
HandlerPath(c) ==
    IF handler[c].raised THEN "exception"
    ELSE IF handler[c].data = None THEN "empty read"
    ELSE IF handler[c].puts = << None >> \/
            (~useTestHandler /\ ~Truthy(decrypt_message(ServerPrivateKey,
                                                        handler[c].data)))
         THEN "not decrypted"
    ELSE "delivered"

\* C25: a finished connection handler has written zero bytes on its
\* connection, whichever way it ended; a step in which a handler reads,
\* decrypts and delivers changes no client's state, and no step of a send
\* takes anything from the server: the result of a send is decided by the
\* client's own steps.
C25_OneWay ==
    /\ [](\A c \in Conns : Handled(c) => handler[c].written = 0)
    /\ [][( /\ handler' # handler => client' = client
            /\ \A c \in Conns :
                  (client[c].kind = "send" /\ client'[c].result = "True"
                     /\ client[c].result # "True")
                  => client[c].pc = "written" )]_vars

\* Two sends returned True; the server delivered the message of one and
\* could not decrypt the other.
C25_Witness ==
    \E c, d \in Conns :
        /\ client[c].kind = "send" /\ client[c].result = "True"
        /\ client[d].kind = "send" /\ client[d].result = "True"
        /\ Handled(c) /\ HandlerPath(c) = "delivered"
        /\ Handled(d) /\ HandlerPath(d) = "not decrypted"
        /\ handler[c].written = 0 /\ handler[d].written = 0

(***************************************************************************)
(* What the test handler puts                                              *)
(***************************************************************************)
\* what decrypt_message returned to the handler of connection c
Decrypted(c) == decrypt_message(ServerPrivateKey, handler[c].data)

\* the handler of connection c got bytes from its read and finished
ReadSome(c) ==
    /\ useTestHandler
    /\ Handled(c)
    /\ ~handler[c].raised
    /\ handler[c].data # None

\* C27 as stated: the test handler puts None if and only if decrypt_message
\* failed or an exception occurred, and whenever decrypt_message returned a
\* string, the empty string included, it puts that string.
C27_NoneOnlyOnFailure ==
    \A c \in Conns :
        (useTestHandler /\ Handled(c)) =>
            /\ handler[c].puts = << None >>
                  <=> (handler[c].raised \/ (ReadSome(c) /\ Decrypted(c) = None))
            /\ (ReadSome(c) /\ Decrypted(c) # None)
                  => handler[c].puts = << Decrypted(c) >>

\* C27 amended: the test handler puts None if and only if an exception
\* occurred, decrypt_message failed or it returned the empty string; when
\* it returned a non-empty string the handler puts that string.
C27_NoneOnFailureOrEmpty ==
    \A c \in Conns :
        (useTestHandler /\ Handled(c)) =>
            /\ handler[c].puts = << None >>
                  <=> (handler[c].raised \/ (ReadSome(c) /\ ~Truthy(Decrypted(c))))
            /\ (ReadSome(c) /\ Truthy(Decrypted(c)))
                  => handler[c].puts = << Decrypted(c) >>

\* An empty plaintext was sent, read whole and decrypted to the empty
\* string, and the handler put None.
C27_Witness ==
    \E c \in Conns :
        /\ client[c].kind = "send" /\ client[c].msg = << >>
        /\ ReadSome(c)
        /\ Decrypted(c) = Some(<< >>)
        /\ handler[c].puts = << None >>

(***************************************************************************)
(* Every handler closes its writer and puts at most one item               *)
(***************************************************************************)
\* the connections the server has accepted so far
AcceptedConns == { c \in Conns : handler[c].pc # "none" }

\* C28: a connection handler that has finished, on any of its paths (empty
\* read, decrypted, not decrypted, exception), has closed its writer; each
\* accepted connection has put at most one item, and only when it finished,
\* so test_message_queue never holds more items than connections were
\* accepted; a handler's run closes its writer and adds its own items, at
\* most one, to the queue.
C28_ClosesAndPutsAtMostOnce ==
    /\ [](/\ \A c \in Conns :
               /\ Handled(c) => (handler[c].closed /\ Len(handler[c].puts) <= 1)
               /\ ~Handled(c) => (handler[c].puts = << >> /\ ~handler[c].closed)
          /\ Len(test_message_queue) <= Cardinality(AcceptedConns))
    /\ [][(\A c \in Conns :
             (handler[c].pc = "read" /\ handler'[c].pc = "done") =>
                 /\ handler'[c].closed
                 /\ test_message_queue' = test_message_queue \o handler'[c].puts
                 /\ Len(test_message_queue') <= Len(test_message_queue) + 1)]_vars

\* One handler ended in its except branch and another one read bytes; both
\* closed their writers and the queue holds one item for each.
C28_Witness ==
    \E c \in Conns, d \in Conns :
        /\ c # d
        /\ useTestHandler
        /\ Handled(c) /\ handler[c].raised /\ handler[c].closed
        /\ Handled(d) /\ HandlerPath(d) \in {"delivered", "not decrypted"}
        /\ handler[d].closed
        /\ Len(test_message_queue) = 2

(***************************************************************************)
(* Approval and payment                                                    *)
(***************************************************************************)
\* This step is a review_contribution call that reached its step 4 and
\* left the proposal stored as approved with the reward the call named.
StoredApprovedWithReward ==
    /\ ret'.op = "review"
    /\ ret'.new_status = "approved"
    /\ ret'.reward_amount > 0
    /\ ReviewedProposal(ret'.proposal_id) # None
    /\ ReviewedProject(ret'.proposal_id) # None
    /\ ret'.reviewer_did = ReviewedProject(ret'.proposal_id)[1].owner_did
    /\ LET p == get_contribution(contributions_file', ret'.proposal_id)
       IN  /\ p # None
           /\ p[1].status = "approved"
           /\ p[1].reward_amount = ret'.reward_amount

\* C26 as stated: a review leaves a proposal stored as approved with a
\* reward r > 0 only if its transfer of r tokens from the project owner to
\* the contributor succeeded and moved them; a review whose reward
\* transfer failed does not leave the proposal stored as approved with
\* that reward.
C26_ApprovalMatchesPayment ==
    [][(StoredApprovedWithReward =>
          /\ ret'.transfer = Some(TRUE)
          /\ Moved(ReviewedProposal(ret'.proposal_id)[1].project_id,
                   ret'.reviewer_did,
                   ReviewedProposal(ret'.proposal_id)[1].contributor_did,
                   ret'.reward_amount))]_vars

\* A review returned False because its reward transfer failed, and the
\* proposal is stored as approved with that reward.
ApprovedUnpaid ==
    /\ ret.op = "review"
    /\ ret.transfer = Some(FALSE)
    /\ ~ret.result
    /\ LET p == get_contribution(contributions_file, ret.proposal_id)
       IN  /\ p # None
           /\ p[1].status = "approved"
           /\ p[1].reward_amount = ret.reward_amount
           /\ BalanceIn(projects_file, p[1].project_id, p[1].contributor_did) = 0

(***************************************************************************)
(* Token conservation                                                      *)
(***************************************************************************)
RECURSIVE SumOver(_, _)
\* the sum of the balances of the DIDs in dids
SumOver(token_ledger, dids) ==
    IF dids = {} THEN 0
    ELSE LET d == CHOOSE x \in dids : TRUE
         IN  token_ledger[d] + SumOver(token_ledger, dids \ {d})

LedgerTotal(token_ledger) == SumOver(token_ledger, DOMAIN token_ledger)

\* the projects stored in projects.json
StoredProjects ==
    { load_json(projects_file)[i] : i \in 1 .. Len(load_json(projects_file)) }

\* the balances of every stored project add up to its token_supply
SupplyConserved ==
    \A project \in StoredProjects :
        LedgerTotal(project.token_ledger) = project.token_supply

\* C29 as stated: after any sequence of create_project,
\* transfer_project_tokens and review_contribution calls, the balances of
\* every stored project add up to its token_supply and none is negative.
C29_TokenConservation ==
    /\ SupplyConserved
    /\ \A project \in StoredProjects :
          \A d \in DOMAIN project.token_ledger : project.token_ledger[d] >= 0

(***************************************************************************)
(* Rewards of one proposal                                                 *)
(***************************************************************************)
\* Projects, proposals and reviews without direct calls of
\* transfer_project_tokens: the only transfers are the rewards of reviews.
RewardNext ==
    \/ \E project_name \in ProjectNames, owner_did \in OwnerArgs,
          token_supply \in SupplyArgs, repoOk \in BOOLEAN :
          create_project(project_name, owner_did, token_supply, repoOk)
    \/ \E project_id \in ProjectIdArgs, contributor_did \in ContributorArgs,
          proposal_id \in ProposalIds, ipfsOk \in BOOLEAN :
          submit_contribution(project_id, contributor_did, proposal_id, ipfsOk)
    \/ \E proposal_id \in ProposalIds, reviewer_did \in ReviewerArgs,
          new_status \in StatusArgs, reward_amount \in Amounts :
          review_contribution(proposal_id, reviewer_did, new_status,
                              reward_amount)

RewardSpec == Init /\ [][RewardNext]_vars

\* The tokens transferred so far on account of a project's proposals. Under
\* RewardSpec every transfer is a reward paid by the project owner, and the
\* balances add up to the supply, so these are the tokens that have left
\* the owner's balance.
RewardedTotal(project) ==
    project.token_supply - Balance(project.token_ledger, project.owner_did)

\* the proposals stored in contributions.json
StoredProposals ==
    { load_json(contributions_file)[i] :
        i \in 1 .. Len(load_json(contributions_file)) }

\* C30 as stated: the tokens transferred to the contributor on account of
\* a proposal, over all review_contribution calls on it, equal the
\* proposal's stored reward_amount (with one proposal per project, the
\* tokens the project has paid out).
C30_RewardedAtMostOnce ==
    \A p \in StoredProposals :
        get_project(projects_file, p.project_id) # None =>
            RewardedTotal(get_project(projects_file, p.project_id)[1])
                = p.reward_amount

\* The last review approved an already approved proposal and its transfer
\* succeeded: the contributor holds more than the stored reward.
RewardedTwice ==
    /\ ret.op = "review"
    /\ ret.transfer = Some(TRUE)
    /\ \E p \in StoredProposals :
          /\ p.status = "approved"
          /\ p.reward_amount = 1
          /\ BalanceIn(projects_file, p.project_id, p.contributor_did) = 2

\* A proposal is stored as rejected with reward_amount 0 while the
\* contributor keeps the reward of its earlier approval.
RejectedButPaid ==
    \E p \in StoredProposals :
        /\ p.status = "rejected"
        /\ p.reward_amount = 0
        /\ get_project(projects_file, p.project_id) # None
        /\ get_project(projects_file, p.project_id)[1].owner_did
              # p.contributor_did
        /\ BalanceIn(projects_file, p.project_id, p.contributor_did) > 0
=============================================================================
